---- MODULE Spec2Model ----
(***************************************************************************)
(* Rosegarden LV2 plugin host: a model of LV2PluginInstance               *)
(* (src/sound/LV2PluginInstance.cpp): lifecycle of the plugin handle,     *)
(* the event scheduler inside run(), the atom event sequences and the     *)
(* control ports.                                                         *)
(***************************************************************************)
EXTENDS Integers, Sequences, FiniteSets, TLC

\* ------------------------------------------------------------------ bounds

\* RealTime values are modelled as ticks 0..MaxTime
MaxTime == 3
\* number of sendEvent calls explored
MaxEvents == 2
\* number of lilv_plugin_instantiate calls explored (constructor included)
MaxInstantiate == 3
\* number of doubles in an atom sequence buffer (the source allocates 100000)
ABUFSIZED == 7
\* worker jobs of one instance that may be in flight
MaxJobs == 1
\* number of ports of a plugin whose ports are enumerated kind by kind
MaxPorts == 2

\* --------------------------------------------------------------- constants

\* nullptr for m_instance
NULL == 0
\* ticks per second of the modelled RealTime
TicksPerSec == 2
\* m_sampleRate, frames per second
SampleRate == 3
\* m_blockSize, frames per block
BlockSize == 3
\* sizeof(LV2_Atom_Event): 8 bytes of time stamp and 8 bytes of atom header
AtomEventSize == 16
\* sizeof(LV2_Atom_Sequence_Body), the size lv2_atom_sequence_clear leaves
SeqBodySize == 8
\* sizeof(LV2_Atom), the header of a sequence that atom.size does not count
AtomHeaderSize == 8
\* the capacity, in bytes, handed to lv2_atom_sequence_append_event
AtomCapacity == 8 * ABUFSIZED

\* ------------------------------------------------------------ plugin data

\* one entry of LV2PluginData::ports
PortData(t, in, proto, nm, lo, hi) ==
    [portType |-> t, isInput |-> in, portProtocol |-> proto, name |-> nm,
     min |-> lo, max |-> hi]

\* The plugins the instance is created for.  ports[i + 1] is port index i;
\* defaultState lists the (port index, value) pairs lilv_state_restore sets;
\* worker tells whether the plugin has the worker interface extension.
PluginCatalog ==
    [ mono |->
        [ ports |-> << PortData("LV2AUDIO", TRUE, "LV2FLOAT", "in", 0, 0),
                       PortData("LV2AUDIO", FALSE, "LV2FLOAT", "out", 0, 0),
                       PortData("LV2CONTROL", TRUE, "LV2FLOAT", "gain", 0, 2),
                       PortData("LV2MIDI", TRUE, "LV2ATOM", "midi_in", 0, 0),
                       PortData("LV2CONTROL", FALSE, "LV2FLOAT", "latency", 0, 0) >>,
          defaultState |-> << << 2, 1 >> >>,
          worker |-> TRUE ],
      stereo |->
        [ ports |-> << PortData("LV2AUDIO", TRUE, "LV2FLOAT", "in_l", 0, 0),
                       PortData("LV2AUDIO", TRUE, "LV2FLOAT", "in_r", 0, 0),
                       PortData("LV2AUDIO", FALSE, "LV2FLOAT", "out_l", 0, 0),
                       PortData("LV2AUDIO", FALSE, "LV2FLOAT", "out_r", 0, 0),
                       PortData("LV2CONTROL", TRUE, "LV2ATOM", "control", 0, 0),
                       PortData("LV2MIDI", TRUE, "LV2ATOM", "events", 0, 0),
                       PortData("LV2CONTROL", TRUE, "LV2FLOAT", "mix", 1, 2),
                       PortData("LV2CONTROL", FALSE, "LV2ATOM", "notify", 0, 0) >>,
          defaultState |-> << << 6, 3 >> >>,
          worker |-> FALSE ] ]

Plugins == DOMAIN PluginCatalog

\* every (type, direction, protocol) a PortData can carry
PortKinds ==
    {PortData(t, in, proto, "p", 1, 2) :
        t \in {"LV2AUDIO", "LV2CONTROL", "LV2MIDI"}, in \in BOOLEAN,
        proto \in {"LV2FLOAT", "LV2ATOM"}}

\* the plugins of up to MaxPorts ports, each port of any kind
DeclaredPlugins ==
    {[ports |-> ps, defaultState |-> << >>, worker |-> FALSE] :
        ps \in UNION {[1 .. n -> PortKinds] : n \in 0 .. MaxPorts}}

\* values a caller passes to setPortValue
PortValues == -1 .. 3
\* channel counts the host asks for
ChannelCounts == {1, 2}
\* event types of a snd_seq_event_t: one that translates to MIDI, one that does not
EventTypes == {"NOTEON", "NONE"}

VARIABLES
    life,               \* "unborn", "alive", "dying", "destroyed", "crashed"
    m_pluginData,       \* the LV2PluginData of the plugin
    m_instance,         \* the LilvInstance handle, NULL or 1..MaxInstantiate
    handles,            \* what the plugin knows of each handle it returned
    m_channelCount,
    m_distributeChannels,
    m_audioPortsIn,
    m_audioPortsOut,
    m_controlPortsIn,   \* port index -> value
    m_controlPortsOut,
    m_atomInputPorts,   \* sequence of AtomPort
    m_atomOutputPorts,
    m_latencyPort,      \* {i}: points at m_controlPortsOut[i]; {}: nullptr
    m_run,
    m_workerInterface,
    m_eventBuffer,      \* std::map<RealTime, snd_seq_event_t>
    m_features,
    registered,         \* LV2Utils holds (instrument, position) -> this
    locked,             \* the LV2Utils lock
    jobs,               \* worker jobs the plugin scheduled, not yet worked
    responses,          \* completed worker jobs waiting for this instance
    nextId,             \* payloads handed to sendEvent so far
    everAppended,       \* the (envelope, port) pairs runs have appended
    lastOp,             \* the public operation that returned last
    calls,              \* the ABI calls that operation issued, in order
    lastRun,            \* what the last run() did
    m_inputBuffers,     \* one sample buffer per entry of m_audioPortsIn
    m_outputBuffers,    \* one sample buffer per entry of m_audioPortsOut
    \* WAVExporter
    m_start,
    m_stop,
    m_running,
    m_ws,               \* the AudioWriteStream: "null" or "open"
    m_leftChannelBuffer,    \* [ptr |-> "null" or "live", data |-> unread]
    m_rightChannelBuffer,
    streamFrames,            \* the frames put to the write stream, in order
    accepted,           \* the frames addSamples has accepted, in order
    audioThread,        \* the audio thread's position in addSamples, or
                        \* how its last call returned
    guiThread,          \* the GUI thread's position in update
    exportLog,          \* streams and ring buffers created and released
    \* AudioSegmentResizeFromStartCommand
    commandLife,        \* "unborn", "alive", "destroyed", "crashed"
    m_segment,
    m_newSegment,       \* NULL or a segment
    m_detached,
    m_oldStartTime,
    m_newStartTime,
    segments            \* segment -> its times, composition and liveness

vars == << life, m_pluginData, m_instance, handles, m_channelCount,
           m_distributeChannels, m_audioPortsIn, m_audioPortsOut,
           m_controlPortsIn, m_controlPortsOut, m_atomInputPorts,
           m_atomOutputPorts, m_latencyPort, m_run, m_workerInterface,
           m_eventBuffer, m_features, registered, locked, jobs, responses,
           nextId, everAppended, lastOp, calls, lastRun, m_inputBuffers,
           m_outputBuffers, m_start, m_stop, m_running, m_ws,
           m_leftChannelBuffer, m_rightChannelBuffer, streamFrames, accepted,
           audioThread, guiThread, exportLog, commandLife, m_segment,
           m_newSegment, m_detached, m_oldStartTime, m_newStartTime,
           segments >>

\* the members of the LV2PluginInstance and what is recorded of its calls
pluginVars == << life, m_pluginData, m_instance, handles, m_channelCount,
                 m_distributeChannels, m_audioPortsIn, m_audioPortsOut,
                 m_controlPortsIn, m_controlPortsOut, m_atomInputPorts,
                 m_atomOutputPorts, m_latencyPort, m_run, m_workerInterface,
                 m_eventBuffer, m_features, registered, locked, jobs,
                 responses, nextId, everAppended, lastOp, calls, lastRun,
                 m_inputBuffers, m_outputBuffers >>

\* the members of the WAVExporter, its two threads and its write stream
exportVars == << m_start, m_stop, m_running, m_ws, m_leftChannelBuffer,
                 m_rightChannelBuffer, streamFrames, accepted, audioThread,
                 guiThread, exportLog >>

\* the members of the AudioSegmentResizeFromStartCommand and the segments
commandVars == << commandLife, m_segment, m_newSegment, m_detached,
                  m_oldStartTime, m_newStartTime, segments >>

\* what an operation of the plugin instance leaves alone
otherObjects == << exportVars, commandVars >>

\* the sample buffers
audioVars == << m_inputBuffers, m_outputBuffers >>

\* ------------------------------------------------------------- helpers

\* the smallest key of a std::map, i.e. *m.begin()
MinOf(S) == CHOOSE x \in S : \A y \in S : x <= y

\* std::map operator[] assignment: insert the key or overwrite its value
MapPut(m, k, v) == [x \in DOMAIN m \cup {k} |-> IF x = k THEN v ELSE m[x]]

\* std::map erase
MapErase(m, k) == [x \in DOMAIN m \ {k} |-> m[x]]

\* the keys of a std::map in iteration order
RECURSIVE KeysInOrder(_)
KeysInOrder(S) ==
    IF S = {} THEN << >>
    ELSE << MinOf(S) >> \o KeysInOrder(S \ {MinOf(S)})

\* lv2_atom_pad_size: round up to a multiple of 8
lv2_atom_pad_size(size) == ((size + 7) \div 8) * 8

\* lv2_atom_sequence_clear: the sequence holds only its body header
lv2_atom_sequence_clear(ap) == [ap EXCEPT !.size = SeqBodySize, !.events = << >>]

\* an AtomPort that is never flagged as carrying MIDI
NewAtomPort_neverMidi(i, pd) ==
    [index |-> i, isMidi |-> FALSE,
     size |-> 8 * ABUFSIZED - 8, events |-> << >>]

\* the AtomPort init() builds for port i: cleared, then atom.size set to the
\* size of the whole buffer less the atom header
NewAtomPort(i, pd) ==
    [index |-> i, isMidi |-> (pd.portType = "LV2MIDI"),
     size |-> 8 * ABUFSIZED - 8, events |-> << >>]

\* lv2_atom_sequence_append_event(seq, capacity, event): refused when the
\* event does not fit in capacity - atom.size, else copied to the end
lv2_atom_sequence_append_event(ap, capacity, event) ==
    LET total_size == AtomEventSize + event.size
    IN  IF capacity - ap.size < total_size
        THEN ap
        ELSE [ap EXCEPT !.events = Append(@, event),
                        !.size = @ + lv2_atom_pad_size(total_size)]

\* whether that append is refused (returns nullptr)
AppendRefused(ap, capacity, event) ==
    capacity - ap.size < AtomEventSize + event.size

\* RealTime::realTime2Frame: round(time * sampleRate), time in ticks
realTime2Frame(time, sampleRate) ==
    (time * sampleRate + TicksPerSec \div 2) \div TicksPerSec

\* snd_midi_event_decode: the number of MIDI bytes of the event, or a
\* negative error for an event type that has no MIDI encoding
snd_midi_event_decode(qEvent) ==
    CASE qEvent.type = "NOTEON" -> 3
      [] qEvent.type = "PGMCHANGE" -> 2
      [] OTHER -> 0 - 2

\* ---------------------------------------------------------------- init()

\* one iteration of the port discovery loop of init(), for port index i
InitPort(st, i, pd) ==
    IF pd.portType = "LV2AUDIO" THEN
        IF pd.isInput
        THEN [st EXCEPT !.audioIn = Append(@, i)]
        ELSE [st EXCEPT !.audioOut = Append(@, i)]
    ELSE IF pd.portType \in {"LV2CONTROL", "LV2MIDI"} THEN
        IF pd.portProtocol = "LV2ATOM" THEN
            IF pd.isInput
            THEN [st EXCEPT !.atomIn = Append(@, NewAtomPort(i, pd))]
            ELSE [st EXCEPT !.atomOut = Append(@, NewAtomPort(i, pd))]
        ELSE
            IF pd.isInput
            THEN [st EXCEPT !.controlIn = MapPut(@, i, 0)]
            ELSE [st EXCEPT !.controlOut = MapPut(@, i, 0),
                            !.latency = IF pd.name \in {"latency", "_latency"}
                                        THEN {i} ELSE @]
    ELSE st

RECURSIVE InitPorts(_, _, _)
InitPorts(st, ports, i) ==
    IF i >= Len(ports) THEN st
    ELSE InitPorts(InitPort(st, i, ports[i + 1]), ports, i + 1)

\* the mono plugin on a stereo channel: both lists get a -1 entry
DistributeChannels(st, channelCount) ==
    IF Len(st.audioIn) = 1 /\ Len(st.audioOut) = 1 /\ channelCount = 2
    THEN [st EXCEPT !.audioIn = Append(@, 0 - 1),
                    !.audioOut = Append(@, 0 - 1),
                    !.distribute = TRUE]
    ELSE [st EXCEPT !.distribute = FALSE]

\* init(idealChannelCount), from the empty members the constructor starts with
init(pluginData, idealChannelCount) ==
    DistributeChannels(
        InitPorts([audioIn |-> << >>, audioOut |-> << >>,
                   controlIn |-> << >>, controlOut |-> << >>,
                   atomIn |-> << >>, atomOut |-> << >>,
                   latency |-> {}, distribute |-> FALSE],
                  pluginData.ports, 0),
        idealChannelCount)

\* ------------------------------------------------------------ lifecycle

\* The members the lifecycle operations read and write, as one record.
Self ==
    [instance |-> m_instance, handles |-> handles, calls |-> << >>,
     features |-> m_features,
     audioIn |-> m_audioPortsIn, audioOut |-> m_audioPortsOut,
     controlIn |-> m_controlPortsIn, controlOut |-> m_controlPortsOut,
     atomIn |-> m_atomInputPorts, atomOut |-> m_atomOutputPorts]

\* one call through the plugin ABI, on a handle
AbiCall(name, h, p) == [call |-> name, handle |-> h, port |-> p]

\* isOK(): the instance holds a handle
isOK(s) == s.instance # NULL

\* instantiate(sampleRate): the feature list grows by the four host features
\* and a terminator, and m_instance takes what lilv_plugin_instantiate
\* returns: a new handle, or nullptr
instantiate(s, ok) ==
    LET h == IF ok THEN Len(s.handles) + 1 ELSE NULL
    IN  [s EXCEPT
            !.features = @ \o << "urid:map", "urid:unmap", "worker:schedule",
                                 "options:options", "nullptr" >>,
            !.calls = Append(@, AbiCall("instantiate", h, 0 - 1)),
            !.instance = h,
            !.handles = IF ok
                        THEN Append(@, [state |-> "instantiated",
                                        connected |-> {}])
                        ELSE @]

\* setPortValue storing through operator[] without the find: a port absent
\* from the map gets an entry
setPortValue_createsEntry(s, portNumber, value) ==
    [s EXCEPT !.controlIn = MapPut(@, portNumber, value)]

\* setPortValue without the clamp to the maximum
setPortValue_noMaxClamp(s, portNumber, value) ==
    IF portNumber \notin DOMAIN s.controlIn THEN s
    ELSE LET pd == m_pluginData.ports[portNumber + 1]
             v1 == IF value < pd.min THEN pd.min ELSE value
         IN  [s EXCEPT !.controlIn = MapPut(@, portNumber, v1)]

\* setPortValue(portNumber, value)
setPortValue(s, portNumber, value) ==
    IF portNumber \notin DOMAIN s.controlIn THEN s
    ELSE LET pd == m_pluginData.ports[portNumber + 1]
             v1 == IF value < pd.min THEN pd.min ELSE value
             v2 == IF v1 > pd.max THEN pd.max ELSE v1
         IN  [s EXCEPT !.controlIn = MapPut(@, portNumber, v2)]

\* lilv_state_restore with setPortValueFunc: one setPortValue per entry
RECURSIVE RestoreState(_, _)
RestoreState(s, state) ==
    IF state = << >> THEN s
    ELSE RestoreState(setPortValue(s, Head(state)[1], Head(state)[2]),
                      Tail(state))

\* the port indices connectPorts hands to lilv_instance_connect_port, in order
RECURSIVE AtomIndices(_)
AtomIndices(aps) ==
    IF aps = << >> THEN << >>
    ELSE << Head(aps).index >> \o AtomIndices(Tail(aps))

ConnectOrder(s) ==
    SelectSeq(s.audioIn, LAMBDA p : p # 0 - 1)
    \o SelectSeq(s.audioOut, LAMBDA p : p # 0 - 1)
    \o KeysInOrder(DOMAIN s.controlIn)
    \o KeysInOrder(DOMAIN s.controlOut)
    \o AtomIndices(s.atomIn)
    \o AtomIndices(s.atomOut)

\* connectPorts(): connect every listed port, then restore the default state
connectPorts(s) ==
    LET order == ConnectOrder(s)
        s1 == [s EXCEPT
                 !.calls = @ \o [k \in 1 .. Len(order) |->
                                   AbiCall("connect_port", s.instance, order[k])],
                 !.handles = IF s.instance # NULL
                             THEN [@ EXCEPT ![s.instance].connected =
                                     @ \cup {order[k] : k \in 1 .. Len(order)}]
                             ELSE @]
    IN  RestoreState(s1, m_pluginData.defaultState)

\* activate(): lilv_instance_activate
activate(s) ==
    [s EXCEPT !.calls = Append(@, AbiCall("activate", s.instance, 0 - 1)),
              !.handles = IF s.instance # NULL
                          THEN [@ EXCEPT ![s.instance].state = "active"]
                          ELSE @]

\* deactivate(): lilv_instance_deactivate
deactivate(s) ==
    [s EXCEPT !.calls = Append(@, AbiCall("deactivate", s.instance, 0 - 1)),
              !.handles = IF s.instance # NULL
                          THEN [@ EXCEPT ![s.instance].state = "inactive"]
                          ELSE @]

\* cleanup(): lilv_instance_free, which does nothing for nullptr and
\* otherwise calls the plugin's cleanup; m_instance keeps its value
cleanup(s) ==
    IF s.instance = NULL THEN s
    ELSE [s EXCEPT !.calls = Append(@, AbiCall("cleanup", s.instance, 0 - 1)),
                   !.handles = [@ EXCEPT ![s.instance].state = "freed"]]

\* ------------------------------------------------------------------ run()

\* what a null dereference inside a lilv call may do: kill the process, or
\* go on with whatever was read
UBOutcomes == {"crash", "goes_on"}

\* the outcomes of a lilv call through handle h: one unless h is nullptr
CallOutcomes(h) == IF h = NULL THEN UBOutcomes ELSE {"goes_on"}

\* whether the plugin may schedule worker jobs in its process callback
MaySchedule == IF m_pluginData.worker THEN BOOLEAN ELSE {FALSE}

\* the event run() builds for a decoded envelope
MidiAtomEvent(frameOffset, bytes, qEvent) ==
    [frames |-> frameOffset, size |-> bytes, type |-> "midi:MidiEvent",
     id |-> qEvent.id]

\* the loop over m_atomInputPorts: append the event to every MIDI port
RECURSIVE AppendToMidiPorts(_, _, _)
AppendToMidiPorts(w, k, event) ==
    IF k > Len(w.atoms) THEN w
    ELSE IF ~ w.atoms[k].isMidi THEN AppendToMidiPorts(w, k + 1, event)
    ELSE IF AppendRefused(w.atoms[k], AtomCapacity, event)
    THEN AppendToMidiPorts(
            [w EXCEPT !.refused = Append(@, [port |-> w.atoms[k].index,
                                             id |-> event.id])],
            k + 1, event)
    ELSE AppendToMidiPorts(
            [w EXCEPT !.atoms[k] = lv2_atom_sequence_append_event(
                                       w.atoms[k], AtomCapacity, event),
                      !.appended = Append(@, [port |-> w.atoms[k].index,
                                              frames |-> event.frames,
                                              id |-> event.id])],
            k + 1, event)

\* the frame offset run() gives an envelope: late envelopes are clamped to
\* the start of the block
FrameOffset(evTime, bufferStart) ==
    realTime2Frame((IF evTime < bufferStart THEN bufferStart ELSE evTime)
                       - bufferStart, SampleRate)

\* the test that ends the walk: the envelope belongs to a later block
BeyondBlock(frameOffset) == frameOffset > BlockSize

\* the envelope is left in the queue
EraseConsumed_keep(buf, t) == buf

\* what run() does with the queue entry of an envelope it has decoded
EraseConsumed(buf, t) == MapErase(buf, t)

\* the while loop of run() over m_eventBuffer; keys are the entries the
\* iterator has still to visit
RECURSIVE DrainEvents(_, _, _)
DrainEvents(w, keys, bufferStart) ==
    IF keys = << >> THEN w
    ELSE LET t == Head(keys)
             qEvent == w.buf[t]
             frameOffset == FrameOffset(t, bufferStart)
             bytes == snd_midi_event_decode(qEvent)
         IN  IF BeyondBlock(frameOffset) THEN w
             ELSE IF bytes <= 0 THEN [w EXCEPT !.aborted = TRUE]
             ELSE DrainEvents(
                    AppendToMidiPorts(
                        [w EXCEPT !.buf = EraseConsumed(@, t),
                                  !.removed = Append(@, qEvent.id)],
                        1, MidiAtomEvent(frameOffset, bytes, qEvent)),
                    Tail(keys), bufferStart)

\* lv2utils->lock() at the entry of run()
LockAtEntry == << "lock" >>

\* the early return with the lock still held
UnlockOnDecodeFailure_none == << >>

\* lv2utils->unlock() before the return on a decode failure
UnlockOnDecodeFailure == << "unlock" >>

\* lv2utils->unlock() at the end of run()
UnlockAtEnd == << "unlock" >>

\* whether the lock is held after a sequence of lock operations
HeldAfter(ops) ==
    Len(SelectSeq(ops, LAMBDA o : o = "lock"))
        > Len(SelectSeq(ops, LAMBDA o : o = "unlock"))

\* the steps of run() up to the return of the process callback, or up to
\* the early return
EntrySteps(aborted) ==
    << "lock", "drain" >>
    \o (IF aborted THEN << "unlock" >>
        ELSE (IF m_distributeChannels THEN << "downmix" >> ELSE << >>)
             \o << "atom_out_init", "process" >>)

\* the steps of run() after the process callback, with n responses waiting
ExitSteps(n) ==
    (IF m_workerInterface
     THEN [k \in 1 .. n |-> "work_response"] \o << "end_run" >>
     ELSE << >>)
    \o << "clear_atom_in", "atom_out" >>
    \o (IF m_distributeChannels THEN << "fanout" >> ELSE << >>)
    \o << "unlock" >>

\* every sequence of a port list cleared
ClearAll(aps) == [k \in 1 .. Len(aps) |-> lv2_atom_sequence_clear(aps[k])]

\* every atom output sequence told the size of its buffer
InitAtomOut(aps) ==
    [k \in 1 .. Len(aps) |-> [aps[k] EXCEPT !.size = 8 * ABUFSIZED - 8]]

\* run(rt): the values the members have when run returns.  sched: the plugin
\* schedules a worker job in its process callback; ub: what calling through
\* a null m_instance does.
run(rt, sched, ub) ==
    LET w == DrainEvents([buf |-> m_eventBuffer, atoms |-> m_atomInputPorts,
                          appended |-> << >>, refused |-> << >>,
                          removed |-> << >>, aborted |-> FALSE],
                         KeysInOrder(DOMAIN m_eventBuffer), rt)
        crash == ~ w.aborted /\ m_instance = NULL /\ ub = "crash"
        done == ~ w.aborted /\ ~ crash
        canSched == done /\ m_instance # NULL /\ sched /\ jobs + responses < MaxJobs
        drained == IF done /\ m_workerInterface THEN responses ELSE 0
        lockOps == LockAtEntry
                   \o (IF w.aborted THEN UnlockOnDecodeFailure
                       ELSE IF crash THEN << >> ELSE UnlockAtEnd)
        runCalls ==
            IF w.aborted THEN << >>
            ELSE << AbiCall("run", m_instance, 0 - 1) >>
                 \o (IF done /\ m_workerInterface
                     THEN [k \in 1 .. drained |->
                              AbiCall("work_response", m_instance, 0 - 1)]
                          \o << AbiCall("end_run", m_instance, 0 - 1) >>
                     ELSE << >>)
    IN  [ eventBuffer |-> w.buf,
          entryAtoms |-> w.atoms,
          atomIn |-> IF done THEN ClearAll(w.atoms) ELSE w.atoms,
          atomOut |-> IF w.aborted THEN m_atomOutputPorts
                      ELSE IF done THEN ClearAll(m_atomOutputPorts)
                      ELSE InitAtomOut(m_atomOutputPorts),
          m_run |-> IF done THEN TRUE ELSE m_run,
          locked |-> HeldAfter(lockOps),
          crashed |-> crash,
          jobs |-> IF canSched THEN jobs + 1 ELSE jobs,
          responses |-> responses - drained,
          calls |-> runCalls,
          lastRun |->
            [ valid |-> TRUE, rt |-> rt, before |-> m_eventBuffer,
              earlier |-> everAppended,
              startSizes |-> [k \in 1 .. Len(m_atomInputPorts) |->
                                 m_atomInputPorts[k].size],
              appended |-> w.appended, refused |-> w.refused,
              removed |-> w.removed, aborted |-> w.aborted,
              processed |-> ~ w.aborted,
              handle |-> m_instance,
              seen |-> IF w.aborted THEN << >>
                       ELSE [k \in 1 .. Len(w.atoms) |-> w.atoms[k].events],
              usedSizes |-> [k \in 1 .. Len(w.atoms) |-> w.atoms[k].size],
              downmix |-> ~ w.aborted /\ m_distributeChannels,
              drained |-> drained,
              cleared |-> done,
              fanout |-> done /\ m_distributeChannels,
              returned |-> ~ crash,
              lockOps |-> lockOps,
              steps |-> EntrySteps(w.aborted)
                        \o (IF done THEN ExitSteps(drained) ELSE << >>) ] ]

\* no run() since the last other operation
NoRun == [valid |-> FALSE]

\* ---------------------------------------------------------- sample buffers

\* the first samples of the blocks the host and the plugin write
Seeds == {1, 3}

\* a block of samples: a ramp of odd values, so that the mean of two samples
\* is as exact here as it is in binary floating point
Ramp(seed) == [i \in 1 .. BlockSize |-> seed + 2 * (i - 1)]

\* the blocks of samples the host and the plugin may write
Signals == {Ramp(seed) : seed \in Seeds}

\* new sample_t[blockSize] after its memset
ZeroBuffer == [i \in 1 .. BlockSize |-> 0]

\* the buffers the constructor allocates for a port list: one per entry
NewBuffers(ports) == [k \in 1 .. Len(ports) |-> ZeroBuffer]

\* connectPorts(): the number of buffers the plugin is connected to for a
\* port list; the k-th port that is not -1 is given buffer k - 1
BoundCount(ports) == Cardinality({j \in 1 .. Len(ports) : ports[j] # 0 - 1})

\* the input buffers left as the host filled them
Downmix_left(bufs) == bufs

\* the stereo input combined for a mono plugin
Downmix(bufs) ==
    [bufs EXCEPT ![1] = [i \in 1 .. BlockSize |->
                            (bufs[1][i] + bufs[2][i]) \div 2]]

\* the output of a mono plugin distributed to the two channels
FanOut(bufs) == [bufs EXCEPT ![2] = bufs[1]]

\* the process callback writes a block to every output buffer it is
\* connected to
WriteBound(bufs, out) ==
    [k \in 1 .. Len(bufs) |-> IF k <= Len(out) THEN out[k] ELSE bufs[k]]

\* what run() does with the sample buffers.  hostIn: the input buffers at
\* entry; pluginOut: the blocks the plugin writes; lr: what the run did
runAudio(hostIn, pluginOut, lr) ==
    LET mixed == IF lr.downmix THEN Downmix(hostIn) ELSE hostIn
        ran == lr.processed /\ m_instance # NULL
        written == IF ran THEN WriteBound(m_outputBuffers, pluginOut)
                   ELSE m_outputBuffers
    IN  [ input |-> mixed,
          output |-> IF lr.fanout THEN FanOut(written) ELSE written,
          log |-> [ entry |-> hostIn, ran |-> ran,
                    pluginIn |-> IF ran
                                 THEN SubSeq(mixed, 1,
                                             BoundCount(m_audioPortsIn))
                                 ELSE << >>,
                    pluginOut |-> IF ran THEN pluginOut ELSE << >> ] ]

\* the input buffers the host may have filled before it calls run()
HostInputs == [1 .. Len(m_inputBuffers) -> Signals]

\* the blocks the plugin may write to its audio outputs
PluginOutputs == [1 .. BoundCount(m_audioPortsOut) -> Signals]

\* the plugin writing silence
SilentOutputs == [k \in 1 .. BoundCount(m_audioPortsOut) |-> ZeroBuffer]


\* ------------------------------------------------------------ WAVExporter

\* the capacity of each ring buffer (20000 in start()) and the frames the
\* audio thread offers: per call and in all
RingSize == 2
MaxBlock == 2
MaxFrames == 4

\* a deleted or never created RingBuffer, and new RingBuffer<sample_t>(n)
NullBuffer == [ptr |-> "null", data |-> << >>]
NewRingBuffer == [ptr |-> "live", data |-> << >>]

\* RingBuffer::getWriteSpace, getReadSpace, write and read: a bounded FIFO;
\* read zero-fills what it cannot deliver
getWriteSpace(rb) == RingSize - Len(rb.data)
getReadSpace(rb) == Len(rb.data)
write(rb, samples) == [rb EXCEPT !.data = @ \o samples]
readOut(rb, n) ==
    [i \in 1 .. n |-> IF i <= Len(rb.data) THEN rb.data[i] ELSE 0]
readRest(rb, n) ==
    [rb EXCEPT !.data = IF n >= Len(@) THEN << >>
                        ELSE SubSeq(@, n + 1, Len(@))]

\* the left and right sample of frame k of the audio the mixer delivers
LeftSample(k) == k
RightSample(k) == 0 - k

\* the left and right blocks of the audio thread's call: frames base+1 ..
\* base+numSamples
LeftBlock(base, numSamples) == [i \in 1 .. numSamples |-> LeftSample(base + i)]
RightBlock(base, numSamples) ==
    [i \in 1 .. numSamples |-> RightSample(base + i)]

\* update() with the number of frames taken from the left buffer alone
toRead_leftOnly(spacel, spacer) == spacel

\* the number of frames update() reads: the smaller read space
toRead(spacel, spacer) == IF spacer < spacel THEN spacer ELSE spacel

\* ileaveBuf: frame is of the interleaved buffer
Interleave(lbuf, rbuf) == [is \in 1 .. Len(lbuf) |-> << lbuf[is], rbuf[is] >>]

\* the WAVExporter after its constructor: the members' initialisers
InitExporter ==
    /\ m_start = FALSE
    /\ m_stop = FALSE
    /\ m_running = FALSE
    /\ m_ws = "null"
    /\ m_leftChannelBuffer = NullBuffer
    /\ m_rightChannelBuffer = NullBuffer
    /\ streamFrames = << >>
    /\ accepted = << >>
    /\ audioThread = [pc |-> "idle", returned |-> "never"]
    /\ guiThread = [pc |-> "idle"]
    /\ exportLog = [started |-> FALSE, offered |-> 0, closed |-> FALSE,
                    lost |-> 0]

\* WAVExporter::isComplete
isComplete == m_stop /\ ~ m_running

\* the process has not crashed in the exporter
ExporterUp == audioThread.pc # "crashed"

\* WAVExporter::start, called once when playback starts; m_sampleRate only
\* goes to the write stream and is left out
Start ==
    /\ ExporterUp
    /\ ~ exportLog.started
    /\ m_leftChannelBuffer' = NewRingBuffer
    /\ m_rightChannelBuffer' = NewRingBuffer
    /\ m_start' = TRUE
    /\ exportLog' = [exportLog EXCEPT !.started = TRUE]
    /\ UNCHANGED << m_stop, m_running, m_ws, streamFrames, accepted,
                    audioThread, guiThread >>
    /\ UNCHANGED << pluginVars, commandVars >>

\* WAVExporter::stop
Stop ==
    /\ ExporterUp
    /\ ~ m_stop
    /\ m_stop' = TRUE
    /\ UNCHANGED << m_start, m_running, m_ws, m_leftChannelBuffer,
                    m_rightChannelBuffer, streamFrames, accepted, audioThread,
                    guiThread, exportLog >>
    /\ UNCHANGED << pluginVars, commandVars >>

\* addSamples(left, right, numSamples) on the audio thread, to the test of
\* m_running
AddSamplesEnter ==
    /\ audioThread.pc = "idle"
    /\ \E numSamples \in 1 .. MaxBlock :
         /\ exportLog.offered + numSamples <= MaxFrames
         /\ exportLog' = [exportLog EXCEPT !.offered = @ + numSamples]
         /\ audioThread' = IF ~ m_running
                           THEN [pc |-> "idle", returned |-> "not running"]
                           ELSE [pc |-> "running", base |-> exportLog.offered,
                                 numSamples |-> numSamples]
    /\ UNCHANGED << m_start, m_stop, m_running, m_ws, m_leftChannelBuffer,
                    m_rightChannelBuffer, streamFrames, accepted, guiThread >>
    /\ UNCHANGED << pluginVars, commandVars >>

\* addSamples from the two getWriteSpace calls to the write to the left
\* buffer; through a deleted buffer the behaviour is undefined
AddSamplesLeft ==
    /\ audioThread.pc = "running"
    /\ IF m_leftChannelBuffer.ptr # "live" \/ m_rightChannelBuffer.ptr # "live"
       THEN /\ \E ub \in UBOutcomes :
                 audioThread' = IF ub = "crash" THEN [pc |-> "crashed"]
                                ELSE [pc |-> "idle", returned |-> "undefined"]
            /\ UNCHANGED m_leftChannelBuffer
       ELSE LET spacel == getWriteSpace(m_leftChannelBuffer)
                spacer == getWriteSpace(m_rightChannelBuffer)
                n == audioThread.numSamples
            IN  IF spacel < n \/ spacer < n
                THEN /\ audioThread' = [pc |-> "idle",
                                          returned |-> "overflow"]
                     /\ UNCHANGED m_leftChannelBuffer
                ELSE /\ m_leftChannelBuffer' =
                            write(m_leftChannelBuffer,
                                  LeftBlock(audioThread.base, n))
                     /\ audioThread' = [audioThread EXCEPT !.pc = "left"]
    /\ UNCHANGED << m_start, m_stop, m_running, m_ws, m_rightChannelBuffer,
                    streamFrames, accepted, guiThread, exportLog >>
    /\ UNCHANGED << pluginVars, commandVars >>

\* addSamples: the write to the right buffer and the return
AddSamplesRight ==
    /\ audioThread.pc = "left"
    /\ IF m_rightChannelBuffer.ptr # "live"
       THEN /\ \E ub \in UBOutcomes :
                 audioThread' = IF ub = "crash" THEN [pc |-> "crashed"]
                                ELSE [pc |-> "idle", returned |-> "undefined"]
            /\ UNCHANGED << m_rightChannelBuffer, accepted >>
       ELSE /\ m_rightChannelBuffer' =
                   write(m_rightChannelBuffer,
                         RightBlock(audioThread.base, audioThread.numSamples))
            /\ accepted' = accepted \o
                   Interleave(LeftBlock(audioThread.base,
                                        audioThread.numSamples),
                              RightBlock(audioThread.base,
                                         audioThread.numSamples))
            /\ audioThread' = [pc |-> "idle", returned |-> "written"]
    /\ UNCHANGED << m_start, m_stop, m_running, m_ws, m_leftChannelBuffer,
                    streamFrames, guiThread, exportLog >>
    /\ UNCHANGED << pluginVars, commandVars >>

\* the outcomes of AudioWriteStreamFactory::createWriteStream
StreamOutcomes == {"open", "null"}

\* update() on the GUI thread, to the test of m_stop: the frames both ring
\* buffers hold go to the write stream, or the stream is created
UpdateEnter ==
    /\ ExporterUp
    /\ guiThread.pc = "idle"
    /\ IF m_running
       THEN LET n == toRead(getReadSpace(m_leftChannelBuffer),
                            getReadSpace(m_rightChannelBuffer))
                lbuf == readOut(m_leftChannelBuffer, n)
                rbuf == readOut(m_rightChannelBuffer, n)
            IN  /\ m_leftChannelBuffer' =
                       IF n > 0 THEN readRest(m_leftChannelBuffer, n)
                       ELSE m_leftChannelBuffer
                /\ m_rightChannelBuffer' =
                       IF n > 0 THEN readRest(m_rightChannelBuffer, n)
                       ELSE m_rightChannelBuffer
                /\ streamFrames' = IF n > 0 /\ m_ws # "null"
                              THEN streamFrames \o Interleave(lbuf, rbuf)
                              ELSE streamFrames
                /\ guiThread' = [pc |-> "drained"]
                /\ UNCHANGED << m_start, m_ws, m_running >>
       ELSE /\ IF m_start
               THEN /\ m_start' = FALSE
                    /\ \E ws \in StreamOutcomes :
                         /\ m_ws' = ws
                         /\ m_running' = (ws # "null")
               ELSE UNCHANGED << m_start, m_ws, m_running >>
            /\ UNCHANGED << m_leftChannelBuffer, m_rightChannelBuffer,
                            streamFrames, guiThread >>
    /\ UNCHANGED << m_stop, accepted, audioThread, exportLog >>
    /\ UNCHANGED << pluginVars, commandVars >>

\* update() from the test of m_stop to the return: on stop the stream and
\* the ring buffers are deleted
UpdateFinish ==
    /\ ExporterUp
    /\ guiThread.pc = "drained"
    /\ IF m_stop
       THEN /\ m_running' = FALSE
            /\ m_ws' = "null"
            /\ exportLog' =
                   [exportLog EXCEPT
                      !.closed = TRUE,
                      !.lost = getReadSpace(m_leftChannelBuffer)
                               + getReadSpace(m_rightChannelBuffer)]
            /\ m_leftChannelBuffer' = NullBuffer
            /\ m_rightChannelBuffer' = NullBuffer
       ELSE UNCHANGED << m_running, m_ws, exportLog, m_leftChannelBuffer,
                         m_rightChannelBuffer >>
    /\ guiThread' = [pc |-> "idle"]
    /\ UNCHANGED << m_start, m_stop, streamFrames, accepted, audioThread >>
    /\ UNCHANGED << pluginVars, commandVars >>

\* the exporter between the playback driver, the audio thread and the GUI
\* timer
NextExport ==
    \/ Start
    \/ Stop
    \/ AddSamplesEnter
    \/ AddSamplesLeft
    \/ AddSamplesRight
    \/ UpdateEnter
    \/ UpdateFinish


\* ----------------------------------- AudioSegmentResizeFromStartCommand

\* the largest start time of a segment, in ticks
MaxStart == 2

\* the real time of one tick, in the units of the audio start time
RealTimePerTick == 2

\* Composition::getElapsedRealTime at a constant tempo
getElapsedRealTime(t) == t * RealTimePerTick

\* the audio segments a command may be created for
AudioSegments ==
    [startTime : 0 .. MaxStart, audioStartTime : {4, 6},
     endMarkerTime : {MaxStart + 1, MaxStart + 2},
     composition : {TRUE}, state : {"live"}]

\* new Segment(*m_segment) with the new start times: the copy is in no
\* composition
ResizedCopy(seg, oldStartTime, newStartTime) ==
    [seg EXCEPT
       !.startTime = newStartTime,
       !.audioStartTime = @ - (getElapsedRealTime(oldStartTime)
                               - getElapsedRealTime(newStartTime)),
       !.composition = FALSE]

\* no command yet
InitCommand ==
    /\ commandLife = "unborn"
    /\ m_segment = NULL
    /\ m_newSegment = NULL
    /\ m_detached = FALSE
    /\ m_oldStartTime = 0
    /\ m_newStartTime = 0
    /\ segments = << >>

\* AudioSegmentResizeFromStartCommand(segment, newStartTime) for a segment
\* of the composition
NewCommand ==
    /\ commandLife = "unborn"
    /\ \E segment \in AudioSegments, newStartTime \in 0 .. MaxStart :
         /\ segments' = << segment >>
         /\ m_oldStartTime' = segment.startTime
         /\ m_newStartTime' = newStartTime
    /\ m_segment' = 1
    /\ m_newSegment' = NULL
    /\ m_detached' = FALSE
    /\ commandLife' = "alive"
    /\ UNCHANGED << pluginVars, exportVars >>

\* the command history executes a command that is not executed, and undoes
\* one that is
CanExecute == segments[m_segment].composition
CanUnexecute == m_newSegment # NULL /\ segments[m_newSegment].composition

\* execute(): the segments and m_newSegment it leaves
execute(segs, newSegment) ==
    LET made == IF newSegment = NULL
                THEN Append(segs, ResizedCopy(segs[m_segment], m_oldStartTime,
                                              m_newStartTime))
                ELSE segs
        n == IF newSegment = NULL THEN Len(made) ELSE newSegment
    IN  [segments |->
             [made EXCEPT ![n].composition = TRUE,
                          ![n].endMarkerTime = segs[m_segment].endMarkerTime,
                          ![m_segment].composition = FALSE],
         m_newSegment |-> n]

\* AudioSegmentResizeFromStartCommand::execute
Execute ==
    /\ commandLife = "alive"
    /\ CanExecute
    /\ segments' = execute(segments, m_newSegment).segments
    /\ m_newSegment' = execute(segments, m_newSegment).m_newSegment
    /\ m_detached' = FALSE
    /\ UNCHANGED << commandLife, m_segment, m_oldStartTime, m_newStartTime >>
    /\ UNCHANGED << pluginVars, exportVars >>

\* AudioSegmentResizeFromStartCommand::unexecute
Unexecute ==
    /\ commandLife = "alive"
    /\ CanUnexecute
    /\ segments' = [segments EXCEPT ![m_segment].composition = TRUE,
                                    ![m_newSegment].composition = FALSE]
    /\ m_detached' = TRUE
    /\ UNCHANGED << commandLife, m_segment, m_newSegment, m_oldStartTime,
                    m_newStartTime >>
    /\ UNCHANGED << pluginVars, exportVars >>

\* ~AudioSegmentResizeFromStartCommand: delete m_segment or m_newSegment
DestroyCommand ==
    /\ commandLife = "alive"
    /\ LET doomed == IF ~ m_detached THEN m_segment ELSE m_newSegment
       IN  segments' = IF doomed = NULL THEN segments
                       ELSE [segments EXCEPT ![doomed].state = "deleted"]
    /\ commandLife' = "destroyed"
    /\ UNCHANGED << m_segment, m_newSegment, m_detached, m_oldStartTime,
                    m_newStartTime >>
    /\ UNCHANGED << pluginVars, exportVars >>

\* a resize command from its creation to its deletion
NextCommand ==
    \/ NewCommand
    \/ Execute
    \/ Unexecute
    \/ DestroyCommand

\* ----------------------------------------------------------------- state

\* before the constructor runs: the member initialisers of the constructor
InitFor(plugins) ==
    /\ life = "unborn"
    /\ m_pluginData \in plugins
    /\ m_instance = NULL
    /\ handles = << >>
    /\ m_channelCount = 0
    /\ m_distributeChannels = FALSE
    /\ m_audioPortsIn = << >>
    /\ m_audioPortsOut = << >>
    /\ m_controlPortsIn = << >>
    /\ m_controlPortsOut = << >>
    /\ m_atomInputPorts = << >>
    /\ m_atomOutputPorts = << >>
    /\ m_latencyPort = {}
    /\ m_run = FALSE
    /\ m_workerInterface = FALSE
    /\ m_eventBuffer = << >>
    /\ m_features = << >>
    /\ registered = FALSE
    /\ locked = FALSE
    /\ jobs = 0
    /\ responses = 0
    /\ nextId = 0
    /\ everAppended = {}
    /\ lastOp = [name |-> "none"]
    /\ calls = << >>
    /\ lastRun = NoRun
    /\ m_inputBuffers = << >>
    /\ m_outputBuffers = << >>
    /\ InitExporter
    /\ InitCommand

\* the instance before its constructor, for a plugin of the catalog
Init == InitFor({PluginCatalog[p] : p \in Plugins})

\* the instance before its constructor, for a plugin with any declared ports
InitClassifier == InitFor(DeclaredPlugins)

\* the members a lifecycle operation leaves in record s
Commit(s) ==
    /\ m_instance' = s.instance
    /\ handles' = s.handles
    /\ calls' = s.calls
    /\ m_features' = s.features
    /\ m_controlPortsIn' = s.controlIn

\* LV2PluginInstance::LV2PluginInstance.  ok: lilv_plugin_instantiate
\* returns a handle; ub: what the extension-data query does on nullptr;
\* read: whether the query gives a worker interface (with nullptr, whatever
\* the dereference read).
Construct ==
    /\ life = "unborn"
    /\ \E idealChannelCount \in ChannelCounts, ok \in BOOLEAN,
          ub \in UBOutcomes, read \in BOOLEAN :
         (ok => (ub = "goes_on" /\ read = m_pluginData.worker)) /\
         LET st == init(m_pluginData, idealChannelCount)
             s0 == [Self EXCEPT !.audioIn = st.audioIn,
                                !.audioOut = st.audioOut,
                                !.controlIn = st.controlIn,
                                !.controlOut = st.controlOut,
                                !.atomIn = st.atomIn,
                                !.atomOut = st.atomOut]
             s1 == instantiate(s0, ok)
             s2 == IF isOK(s1) THEN activate(connectPorts(s1)) ELSE s1
             s3 == [s2 EXCEPT !.calls =
                       Append(@, AbiCall("extension_data", s2.instance, 0 - 1))]
             crash == s3.instance = NULL /\ ub = "crash"
         IN  /\ Commit(s3)
             /\ m_channelCount' = idealChannelCount
             /\ m_distributeChannels' = st.distribute
             /\ m_audioPortsIn' = st.audioIn
             /\ m_audioPortsOut' = st.audioOut
             /\ m_inputBuffers' = NewBuffers(st.audioIn)
             /\ m_outputBuffers' = NewBuffers(st.audioOut)
             /\ m_controlPortsOut' = st.controlOut
             /\ m_atomInputPorts' = st.atomIn
             /\ m_atomOutputPorts' = st.atomOut
             /\ m_latencyPort' = st.latency
             /\ m_workerInterface' = IF crash THEN FALSE ELSE read
             /\ life' = IF crash THEN "crashed" ELSE "alive"
             /\ registered' = ~ crash
    /\ lastOp' = [name |-> "constructor"]
    /\ lastRun' = NoRun
    /\ UNCHANGED << m_pluginData, m_run, m_eventBuffer, locked, jobs,
                    responses, nextId, everAppended >>
    /\ UNCHANGED otherObjects

\* the members run() leaves, from the record r that run(rt, sched, ub) gives
\* and the record a that runAudio gives for the same run
CommitRun(r, a) ==
    /\ m_inputBuffers' = a.input
    /\ m_outputBuffers' = a.output
    /\ m_eventBuffer' = r.eventBuffer
    /\ m_atomInputPorts' = r.atomIn
    /\ m_atomOutputPorts' = r.atomOut
    /\ m_run' = r.m_run
    /\ locked' = r.locked
    /\ jobs' = r.jobs
    /\ responses' = r.responses
    /\ calls' = r.calls
    /\ lastRun' = r.lastRun @@ [audio |-> a.log]
    /\ everAppended' = everAppended \cup
           {<< r.lastRun.appended[k].id, r.lastRun.appended[k].port >> :
               k \in 1 .. Len(r.lastRun.appended)}
    /\ life' = IF r.crashed THEN "crashed" ELSE life

\* LV2PluginInstance::run, called by the audio thread for one block, with
\* the input buffers as the host left them and a plugin that writes pluginOut
RunBlock(hostIn, pluginOut) ==
    /\ life = "alive"
    /\ \E rt \in 0 .. MaxTime, sched \in MaySchedule,
          ub \in CallOutcomes(m_instance) :
         LET r == run(rt, sched, ub)
         IN  CommitRun(r, runAudio(hostIn, pluginOut, r.lastRun))
    /\ lastOp' = [name |-> "run"]
    /\ UNCHANGED << m_pluginData, m_instance, handles, m_channelCount,
                    m_distributeChannels, m_audioPortsIn, m_audioPortsOut,
                    m_controlPortsIn, m_controlPortsOut, m_latencyPort,
                    m_workerInterface, m_features, registered, nextId >>
    /\ UNCHANGED otherObjects

\* run() for a block of silence: the host has written nothing to the input
\* buffers and the plugin writes zeros
Run == RunBlock(m_inputBuffers, SilentOutputs)

\* run() for a block of sound
RunAudio ==
    \E hostIn \in HostInputs, pluginOut \in PluginOutputs :
        RunBlock(hostIn, pluginOut)

\* what getLatency() returns: the value behind m_latencyPort, or 0
getLatencyResult ==
    IF m_latencyPort = {} THEN 0
    ELSE m_controlPortsOut[CHOOSE i \in m_latencyPort : TRUE]

\* LV2PluginInstance::getLatency: runs one block when there is a latency
\* port and the plugin was never run
GetLatency ==
    /\ life = "alive"
    /\ IF m_latencyPort # {} /\ ~ m_run
       THEN \E sched \in MaySchedule, ub \in CallOutcomes(m_instance) :
                LET r == run(0, sched, ub)
                IN  CommitRun(r, runAudio(NewBuffers(m_audioPortsIn),
                                          SilentOutputs, r.lastRun))
       ELSE /\ calls' = << >>
            /\ lastRun' = NoRun
            /\ UNCHANGED audioVars
            /\ UNCHANGED << m_eventBuffer, m_atomInputPorts, m_atomOutputPorts,
                            m_run, locked, jobs, responses, life,
                            everAppended >>
    /\ lastOp' = [name |-> "getLatency", result |-> getLatencyResult]
    /\ UNCHANGED << m_pluginData, m_instance, handles, m_channelCount,
                    m_distributeChannels, m_audioPortsIn, m_audioPortsOut,
                    m_controlPortsIn, m_controlPortsOut, m_latencyPort,
                    m_workerInterface, m_features, registered, nextId >>
    /\ UNCHANGED otherObjects

\* when the engine calls an operation that tears the handle down: between
\* two blocks, never while the audio thread is inside run()
TeardownAllowed == ~ locked

\* silence() without the activate that follows the deactivate
silence_noActivate(s) == IF isOK(s) THEN deactivate(s) ELSE s

\* the members silence() leaves
silence(s) == IF isOK(s) THEN activate(deactivate(s)) ELSE s

\* LV2PluginInstance::silence
Silence ==
    /\ life = "alive"
    /\ TeardownAllowed
    /\ Commit(silence(Self))
    /\ lastOp' = [name |-> "silence"]
    /\ lastRun' = NoRun
    /\ UNCHANGED << life, m_pluginData, m_channelCount, m_distributeChannels,
                    m_audioPortsIn, m_audioPortsOut, m_controlPortsOut,
                    m_atomInputPorts, m_atomOutputPorts, m_latencyPort, m_run,
                    m_workerInterface, m_eventBuffer, registered, locked,
                    jobs, responses, nextId, everAppended >>
    /\ UNCHANGED audioVars
    /\ UNCHANGED otherObjects

\* the outcomes of a call that touches the event queue or an event-input
\* sequence without the LV2Utils lock: a data race when run() holds the lock
RaceOutcomes == IF locked THEN UBOutcomes ELSE {"goes_on"}

\* LV2PluginInstance::discardEvents
DiscardEvents ==
    /\ life = "alive"
    /\ m_eventBuffer' = << >>
    /\ lastOp' = [name |-> "discardEvents"]
    /\ calls' = << >>
    /\ lastRun' = IF locked THEN lastRun ELSE NoRun
    /\ \E ub \in RaceOutcomes :
         life' = IF ub = "crash" THEN "crashed" ELSE life
    /\ UNCHANGED << m_pluginData, m_instance, handles, m_channelCount,
                    m_distributeChannels, m_audioPortsIn, m_audioPortsOut,
                    m_controlPortsIn, m_controlPortsOut, m_atomInputPorts,
                    m_atomOutputPorts, m_latencyPort, m_run,
                    m_workerInterface, m_features, registered, locked, jobs,
                    responses, nextId, everAppended >>
    /\ UNCHANGED audioVars
    /\ UNCHANGED otherObjects

\* setIdealChannelCount without the activate of the new handle
setIdealChannelCount_noActivate(s, channels, ok) ==
    IF channels = m_channelCount THEN s
    ELSE LET s1 == IF isOK(s) THEN deactivate(s) ELSE s
             s2 == cleanup(s1)
             s3 == instantiate(s2, ok)
         IN  IF isOK(s3) THEN connectPorts(s3) ELSE s3

\* the members setIdealChannelCount(channels) leaves
setIdealChannelCount(s, channels, ok) ==
    IF channels = m_channelCount THEN s
    ELSE LET s1 == IF isOK(s) THEN deactivate(s) ELSE s
             s2 == cleanup(s1)
             s3 == instantiate(s2, ok)
         IN  IF isOK(s3) THEN activate(connectPorts(s3)) ELSE s3

\* LV2PluginInstance::setIdealChannelCount
SetIdealChannelCount ==
    /\ life = "alive"
    /\ TeardownAllowed
    /\ \E channels \in ChannelCounts, ok \in BOOLEAN :
         /\ channels # m_channelCount =>
                Len(m_features) < 5 * MaxInstantiate
         /\ Commit(setIdealChannelCount(Self, channels, ok))
         /\ lastOp' = [name |-> "setIdealChannelCount",
                       channels |-> channels]
    /\ lastRun' = NoRun
    /\ UNCHANGED << life, m_pluginData, m_channelCount, m_distributeChannels,
                    m_audioPortsIn, m_audioPortsOut, m_controlPortsOut,
                    m_atomInputPorts, m_atomOutputPorts, m_latencyPort, m_run,
                    m_workerInterface, m_eventBuffer, registered, locked,
                    jobs, responses, nextId, everAppended >>
    /\ UNCHANGED audioVars
    /\ UNCHANGED otherObjects

\* LV2PluginInstance::setPortValue(portNumber, value)
SetPortValue ==
    /\ life = "alive"
    /\ \E portNumber \in 0 .. Len(m_pluginData.ports), value \in PortValues :
         /\ m_controlPortsIn' = setPortValue(Self, portNumber, value).controlIn
         /\ lastOp' = [name |-> "setPortValue", port |-> portNumber,
                       value |-> value, before |-> m_controlPortsIn]
    /\ calls' = << >>
    /\ lastRun' = NoRun
    /\ UNCHANGED << life, m_pluginData, m_instance, handles, m_channelCount,
                    m_distributeChannels, m_audioPortsIn, m_audioPortsOut,
                    m_controlPortsOut, m_atomInputPorts, m_atomOutputPorts,
                    m_latencyPort, m_run, m_workerInterface, m_eventBuffer,
                    m_features, registered, locked, jobs, responses, nextId,
                    everAppended >>
    /\ UNCHANGED audioVars
    /\ UNCHANGED otherObjects

\* the types of the values lilv_state_restore and a UI hand over
ValueTypes == {"atom:Float", "atom:Int", "atom:Double"}

\* the sizes, in bytes, of those values
ValueSizes == {4, 8}

\* lilv_plugin_get_port_by_symbol and lilv_port_get_index: the index of the
\* first port with that symbol
PortIndexBySymbol(port_symbol) ==
    MinOf({i \in 0 .. Len(m_pluginData.ports) - 1 :
              m_pluginData.ports[i + 1].name = port_symbol})

\* setPortValue(port_symbol, value, size, type): a value of 4 bytes that is a
\* float or an int goes to setPortValue(index, value), any other is dropped
setPortValueBySymbol(s, port_symbol, value, size, type) ==
    IF size # 4 THEN s
    ELSE IF type = "atom:Float"
    THEN setPortValue(s, PortIndexBySymbol(port_symbol), value)
    ELSE IF type = "atom:Int"
    THEN setPortValue(s, PortIndexBySymbol(port_symbol), value)
    ELSE s

\* LV2PluginInstance::setPortValue(port_symbol, value, size, type), called
\* with the symbol of a port of the plugin
SetPortValueBySymbol ==
    /\ life = "alive"
    /\ \E i \in 0 .. Len(m_pluginData.ports) - 1, value \in PortValues,
          size \in ValueSizes, type \in ValueTypes :
         m_controlPortsIn' =
             setPortValueBySymbol(Self, m_pluginData.ports[i + 1].name,
                                  value, size, type).controlIn
    /\ lastOp' = [name |-> "setPortValueBySymbol"]
    /\ calls' = << >>
    /\ lastRun' = NoRun
    /\ UNCHANGED << life, m_pluginData, m_instance, handles, m_channelCount,
                    m_distributeChannels, m_audioPortsIn, m_audioPortsOut,
                    m_controlPortsOut, m_atomInputPorts, m_atomOutputPorts,
                    m_latencyPort, m_run, m_workerInterface, m_eventBuffer,
                    m_features, registered, locked, jobs, responses, nextId,
                    everAppended >>
    /\ UNCHANGED audioVars
    /\ UNCHANGED otherObjects

\* LV2PluginInstance::getPortValue(portNumber)
getPortValue(portNumber) ==
    IF portNumber \notin DOMAIN m_controlPortsIn THEN 0
    ELSE m_controlPortsIn[portNumber]

\* a call of getPortValue(portNumber): find() and a read, the map is left as
\* it is
GetPortValue ==
    /\ life = "alive"
    /\ \E portNumber \in 0 .. Len(m_pluginData.ports) :
         lastOp' = [name |-> "getPortValue", port |-> portNumber,
                    result |-> getPortValue(portNumber),
                    before |-> m_controlPortsIn]
    /\ calls' = << >>
    /\ lastRun' = NoRun
    /\ UNCHANGED << life, m_pluginData, m_instance, handles, m_channelCount,
                    m_distributeChannels, m_audioPortsIn, m_audioPortsOut,
                    m_controlPortsIn, m_controlPortsOut, m_atomInputPorts,
                    m_atomOutputPorts, m_latencyPort, m_run,
                    m_workerInterface, m_eventBuffer, m_features, registered,
                    locked, jobs, responses, nextId, everAppended >>
    /\ UNCHANGED audioVars
    /\ UNCHANGED otherObjects

\* the queue sendEvent(eventTime, event) leaves
sendEvent(buf, eventTime, seqEvent) == MapPut(buf, eventTime, seqEvent)

\* LV2PluginInstance::sendEvent
SendEvent ==
    /\ life = "alive"
    /\ nextId < MaxEvents
    /\ \E eventTime \in 0 .. MaxTime, type \in EventTypes :
         m_eventBuffer' = sendEvent(m_eventBuffer, eventTime,
                                    [id |-> nextId + 1, type |-> type])
    /\ nextId' = nextId + 1
    /\ lastOp' = [name |-> "sendEvent"]
    /\ calls' = << >>
    /\ lastRun' = IF locked THEN lastRun ELSE NoRun
    /\ \E ub \in RaceOutcomes :
         life' = IF ub = "crash" THEN "crashed" ELSE life
    /\ UNCHANGED << m_pluginData, m_instance, handles, m_channelCount,
                    m_distributeChannels, m_audioPortsIn, m_audioPortsOut,
                    m_controlPortsIn, m_controlPortsOut, m_atomInputPorts,
                    m_atomOutputPorts, m_latencyPort, m_run,
                    m_workerInterface, m_features, registered, locked, jobs,
                    responses, everAppended >>
    /\ UNCHANGED audioVars
    /\ UNCHANGED otherObjects

\* m_atomTransferUrid and another transfer protocol a UI may name
AtomTransfer == "atom:eventTransfer"

Protocols == {AtomTransfer, "ui:floatProtocol"}

\* body sizes, in bytes, of the atoms a UI sends
BlobSizes == {5, 24}

\* the byte arrays a UI sends: a serialised atom, its 8-byte header (body
\* size and type) followed by the body
ByteArrays == {[size |-> n, type |-> "atom:Object"] : n \in BlobSizes}

\* the event setPortByteArray builds in buf: time.frames = 0 and the bytes
\* of ba from offset 8 on, so the body header is the one ba carries
BlobAtomEvent(ba) ==
    [frames |-> 0, size |-> ba.size, type |-> ba.type, id |-> 0]

\* setPortByteArray(port, protocol, ba): the atom input ports it leaves,
\* searching from position k; the result of the append is not looked at
RECURSIVE setPortByteArray(_, _, _, _, _)
setPortByteArray(aps, k, port, protocol, ba) ==
    IF protocol # AtomTransfer THEN aps
    ELSE IF k > Len(aps) THEN aps
    ELSE IF aps[k].index = port
    THEN [aps EXCEPT ![k] = lv2_atom_sequence_append_event(
                                @, 8 * ABUFSIZED, BlobAtomEvent(ba))]
    ELSE setPortByteArray(aps, k + 1, port, protocol, ba)

\* LV2PluginInstance::setPortByteArray(port, protocol, ba)
SetPortByteArrayOf(port, protocol, ba) ==
    /\ life = "alive"
    /\ m_atomInputPorts' =
           setPortByteArray(m_atomInputPorts, 1, port, protocol, ba)
    /\ lastOp' = [name |-> "setPortByteArray"]
    /\ calls' = << >>
    /\ lastRun' = IF locked THEN lastRun ELSE NoRun
    /\ \E ub \in RaceOutcomes :
         life' = IF ub = "crash" THEN "crashed" ELSE life
    /\ UNCHANGED << m_pluginData, m_instance, handles, m_channelCount,
                    m_distributeChannels, m_audioPortsIn, m_audioPortsOut,
                    m_controlPortsIn, m_controlPortsOut, m_atomOutputPorts,
                    m_latencyPort, m_run, m_workerInterface, m_eventBuffer,
                    m_features, registered, locked, jobs, responses, nextId,
                    everAppended >>
    /\ UNCHANGED audioVars
    /\ UNCHANGED otherObjects

\* setPortByteArray called by a plugin UI with any port index, protocol and
\* byte array
SetPortByteArray ==
    \E port \in 0 .. Len(m_pluginData.ports) - 1, protocol \in Protocols,
       ba \in ByteArrays :
        SetPortByteArrayOf(port, protocol, ba)

\* setPortByteArray called by a plugin UI that sends its largest atom with
\* the event transfer protocol to one of the event input ports
UiSendsAtom ==
    \E port \in {m_atomInputPorts[k].index :
                     k \in 1 .. Len(m_atomInputPorts)} :
        SetPortByteArrayOf(port, AtomTransfer,
                           [size |-> 24, type |-> "atom:Object"])

\* the worker thread looks the instance of a job up in the registry, under
\* the LV2Utils lock, and calls it only if it is registered
WorkerFinds == registered /\ ~ locked

\* LV2PluginInstance::runWork, called by the worker thread for a scheduled
\* job of this instance: the plugin's work callback answers with a response
RunWork ==
    /\ life \in {"alive", "dying"}
    /\ WorkerFinds
    /\ jobs > 0
    /\ jobs' = jobs - 1
    /\ responses' = IF m_workerInterface THEN responses + 1 ELSE responses
    /\ calls' = IF m_workerInterface
                THEN << AbiCall("work", m_instance, 0 - 1) >>
                ELSE << >>
    /\ lastOp' = [name |-> "runWork"]
    /\ lastRun' = NoRun
    /\ UNCHANGED << life, m_pluginData, m_instance, handles, m_channelCount,
                    m_distributeChannels, m_audioPortsIn, m_audioPortsOut,
                    m_controlPortsIn, m_controlPortsOut, m_atomInputPorts,
                    m_atomOutputPorts, m_latencyPort, m_run,
                    m_workerInterface, m_eventBuffer, m_features, registered,
                    locked, nextId, everAppended >>
    /\ UNCHANGED audioVars
    /\ UNCHANGED otherObjects

\* the destructor freeing the handle without deactivating it
destroy_noDeactivate(s) == cleanup(s)

\* the handle calls of ~LV2PluginInstance
destroy(s) == cleanup(IF s.instance # NULL THEN deactivate(s) ELSE s)

\* ~LV2PluginInstance after unRegisterPlugin: deactivate, cleanup, and the
\* release of the port maps and buffers
DestructorTeardown ==
    /\ Commit([destroy(Self) EXCEPT !.controlIn = << >>])
    /\ m_controlPortsOut' = << >>
    /\ m_audioPortsIn' = << >>
    /\ m_audioPortsOut' = << >>
    /\ m_inputBuffers' = << >>
    /\ m_outputBuffers' = << >>
    /\ m_atomInputPorts' = << >>
    /\ m_atomOutputPorts' = << >>

\* LV2PluginInstance::~LV2PluginInstance
Destroy ==
    /\ life = "alive"
    /\ TeardownAllowed
    /\ registered' = FALSE
    /\ DestructorTeardown
    /\ life' = "destroyed"
    /\ lastOp' = [name |-> "destructor"]
    /\ lastRun' = NoRun
    /\ UNCHANGED << m_pluginData, m_channelCount, m_distributeChannels,
                    m_latencyPort, m_run, m_workerInterface, m_eventBuffer,
                    m_features, locked, jobs, responses, nextId, everAppended >>
    /\ UNCHANGED otherObjects

\* ------------------------------------------------- the threads, step by step

\* run() from its entry to the return of the plugin's process callback; a
\* run that returns early or dies does so within this step
RunEntry ==
    /\ life = "alive"
    /\ ~ locked
    /\ \E rt \in 0 .. MaxTime, sched \in MaySchedule,
          ub \in CallOutcomes(m_instance) :
         LET r == run(rt, sched, ub)
             inside ==
                 [r EXCEPT
                    !.atomIn = r.entryAtoms,
                    !.atomOut = InitAtomOut(m_atomOutputPorts),
                    !.m_run = m_run,
                    !.locked = TRUE,
                    !.responses = responses,
                    !.calls = << AbiCall("run", m_instance, 0 - 1) >>,
                    !.lastRun = [r.lastRun EXCEPT !.drained = 0,
                                                  !.cleared = FALSE,
                                                  !.fanout = FALSE,
                                                  !.returned = FALSE,
                                                  !.lockOps = LockAtEntry,
                                                  !.steps = EntrySteps(FALSE)]
                                @@ [scheduled |-> r.jobs - jobs]]
             now == IF r.lastRun.aborted \/ r.crashed THEN r ELSE inside
         IN  CommitRun(now, runAudio(m_inputBuffers, SilentOutputs,
                                     now.lastRun))
    /\ lastOp' = [name |-> "runEntry"]
    /\ UNCHANGED << m_pluginData, m_instance, handles, m_channelCount,
                    m_distributeChannels, m_audioPortsIn, m_audioPortsOut,
                    m_controlPortsIn, m_controlPortsOut, m_latencyPort,
                    m_workerInterface, m_features, registered, nextId >>
    /\ UNCHANGED otherObjects

\* run() from the return of the process callback to its own return: the
\* worker responses, end_run, the atom sequences, the fan-out, the unlock
RunExit ==
    /\ life = "alive"
    /\ locked
    /\ LET drained == IF m_workerInterface THEN responses ELSE 0
           older == jobs + responses - lastRun.scheduled
       IN  /\ responses' = responses - drained
           /\ calls' = IF m_workerInterface
                       THEN [k \in 1 .. drained |->
                                AbiCall("work_response", m_instance, 0 - 1)]
                            \o << AbiCall("end_run", m_instance, 0 - 1) >>
                       ELSE << >>
           /\ lastRun' = [lastRun EXCEPT !.drained = drained,
                                         !.cleared = TRUE,
                                         !.fanout = m_distributeChannels,
                                         !.returned = TRUE,
                                         !.lockOps = @ \o UnlockAtEnd,
                                         !.steps = @ \o ExitSteps(drained)]
                         @@ [ownAnswered |-> IF drained > older
                                             THEN drained - older ELSE 0]
    /\ m_atomInputPorts' = ClearAll(m_atomInputPorts)
    /\ m_atomOutputPorts' = ClearAll(m_atomOutputPorts)
    /\ m_outputBuffers' = IF m_distributeChannels
                          THEN FanOut(m_outputBuffers) ELSE m_outputBuffers
    /\ m_run' = TRUE
    /\ locked' = HeldAfter(lastRun.lockOps \o UnlockAtEnd)
    /\ lastOp' = [name |-> "runExit"]
    /\ UNCHANGED << life, m_pluginData, m_instance, handles, m_channelCount,
                    m_distributeChannels, m_audioPortsIn, m_audioPortsOut,
                    m_controlPortsIn, m_controlPortsOut, m_latencyPort,
                    m_workerInterface, m_eventBuffer, m_features, registered,
                    jobs, nextId, everAppended, m_inputBuffers >>
    /\ UNCHANGED otherObjects

\* the worker thread finds no instance for the key of a job: the job is
\* dropped
DropWork ==
    /\ life \in {"dying", "destroyed"}
    /\ ~ registered
    /\ jobs > 0
    /\ jobs' = jobs - 1
    /\ calls' = << >>
    /\ lastOp' = [name |-> "dropWork"]
    /\ lastRun' = NoRun
    /\ UNCHANGED << life, m_pluginData, m_instance, handles, m_channelCount,
                    m_distributeChannels, m_audioPortsIn, m_audioPortsOut,
                    m_controlPortsIn, m_controlPortsOut, m_atomInputPorts,
                    m_atomOutputPorts, m_latencyPort, m_run,
                    m_workerInterface, m_eventBuffer, m_features, registered,
                    locked, responses, nextId, everAppended >>
    /\ UNCHANGED audioVars
    /\ UNCHANGED otherObjects

\* the destructor with the registry left to the end
DestructorSteps_unregisterLast == << "teardown", "unRegisterPlugin" >>

\* the two parts of ~LV2PluginInstance, in the order of the source
DestructorSteps == << "unRegisterPlugin", "teardown" >>

\* ~LV2PluginInstance, one part at a time: the worker thread may run between
\* the two
DestroyStep ==
    /\ life \in {"alive", "dying"}
    /\ TeardownAllowed
    /\ LET step == DestructorSteps[IF life = "alive" THEN 1 ELSE 2]
       IN  /\ IF step = "unRegisterPlugin"
              THEN /\ registered' = FALSE
                   /\ calls' = << >>
                   /\ UNCHANGED << m_instance, handles, m_features,
                                   m_controlPortsIn, m_controlPortsOut,
                                   m_audioPortsIn, m_audioPortsOut,
                                   m_atomInputPorts, m_atomOutputPorts >>
                   /\ UNCHANGED audioVars
              ELSE /\ DestructorTeardown
                   /\ UNCHANGED registered
           /\ lastOp' = [name |-> "destructor", step |-> step]
    /\ life' = IF life = "alive" THEN "dying" ELSE "destroyed"
    /\ lastRun' = NoRun
    /\ UNCHANGED << m_pluginData, m_channelCount, m_distributeChannels,
                    m_latencyPort, m_run, m_workerInterface, m_eventBuffer,
                    locked, jobs, responses, nextId, everAppended >>
    /\ UNCHANGED otherObjects

Next ==
    \/ Construct
    \/ Run
    \/ GetLatency
    \/ Silence
    \/ DiscardEvents
    \/ SetIdealChannelCount
    \/ SetPortValue
    \/ SendEvent
    \/ RunWork
    \/ Destroy
    \/ RunAudio
    \/ RunEntry
    \/ RunExit
    \/ DropWork
    \/ DestroyStep
    \/ SetPortByteArray
    \/ SetPortValueBySymbol
    \/ GetPortValue

Spec == Init /\ [][Next]_vars

\* the handle lifecycle alone: no events are sent, no control value is set
NextLifecycle ==
    \/ Construct
    \/ Run
    \/ GetLatency
    \/ Silence
    \/ SetIdealChannelCount
    \/ RunWork
    \/ Destroy

SpecLifecycle == Init /\ [][NextLifecycle]_vars

\* the event scheduler alone: events are sent, discarded and drained by run
NextEvents ==
    \/ Construct
    \/ SendEvent
    \/ DiscardEvents
    \/ Run

SpecEvents == Init /\ [][NextEvents]_vars

\* the audio thread, the worker thread and the thread that tears down
NextThreads ==
    \/ Construct
    \/ RunEntry
    \/ RunExit
    \/ RunWork
    \/ DropWork
    \/ Silence
    \/ SetIdealChannelCount
    \/ DestroyStep

SpecThreads == Init /\ [][NextThreads]_vars

\* the worker bridge next to the event scheduler
NextWorker ==
    \/ Construct
    \/ SendEvent
    \/ Run
    \/ RunWork

SpecWorker == Init /\ [][NextWorker]_vars

\* the sample buffers: blocks of sound through the channel adapter
NextAudio ==
    \/ Construct
    \/ RunAudio
    \/ GetLatency
    \/ SetIdealChannelCount

SpecAudio == Init /\ [][NextAudio]_vars

\* the port classifier: init() over every kind of declared port at
\* construction, and the lists it made bound again on a channel count change
NextClassifier ==
    \/ Construct
    \/ SetIdealChannelCount

SpecClassifier == InitClassifier /\ [][NextClassifier]_vars

\* the latency report: getLatency between events sent and blocks run
NextLatency ==
    \/ Construct
    \/ SendEvent
    \/ Run
    \/ GetLatency

SpecLatency == Init /\ [][NextLatency]_vars

\* the control values of a plugin with any declared ports: set at
\* construction, by index and by symbol
NextValues ==
    \/ Construct
    \/ SetPortValue
    \/ SetPortValueBySymbol

SpecValues == InitClassifier /\ [][NextValues]_vars

\* the event sequences alone: filled by run and by setPortByteArray
NextAtoms ==
    \/ Construct
    \/ SendEvent
    \/ SetPortByteArray
    \/ Run

SpecAtoms == Init /\ [][NextAtoms]_vars

\* the control ports alone
NextPorts ==
    \/ Construct
    \/ SetPortValue
    \/ GetPortValue
    \/ SetIdealChannelCount
    \/ Silence

SpecPorts == Init /\ [][NextPorts]_vars

\* every object before its constructor, the plugin being the mono one of the
\* catalog
InitBeside == InitFor({PluginCatalog["mono"]})

\* the audio thread inside run() and the threads that queue events, discard
\* them and send UI byte arrays: none of the three takes the LV2Utils lock,
\* so each may be called between the two halves of run()
NextRace ==
    \/ Construct
    \/ RunEntry
    \/ RunExit
    \/ SendEvent
    \/ DiscardEvents
    \/ UiSendsAtom

SpecRace == InitBeside /\ [][NextRace]_vars

\* the exporter alone
SpecExport == InitBeside /\ [][NextExport]_vars

\* the command alone
SpecCommand == InitBeside /\ [][NextCommand]_vars

\* ----------------------------------------------------------------- claims

\* the operations of the handle lifecycle
LifecycleOps == {"constructor", "silence", "setIdealChannelCount", "destructor"}

\* the calls the last operation issued on a null handle
CallsOnNull ==
    {k \in 1 .. Len(calls) :
        calls[k].handle = NULL /\ calls[k].call # "instantiate"}

\* C1: once instantiate has returned a null handle the instance is not OK
\* and the lifecycle operations (the rest of the constructor, silence,
\* setIdealChannelCount, the destructor) issue no ABI call on it: no
\* connect_port, activate, extension-data query, deactivate or cleanup.
C1_NoCallOnNullHandle ==
    (lastOp.name \in LifecycleOps /\ life # "unborn") => CallsOnNull = {}

\* the ports init() put into one of its lists
ClassifiedPorts ==
    ( {m_audioPortsIn[k] : k \in 1 .. Len(m_audioPortsIn)}
      \cup {m_audioPortsOut[k] : k \in 1 .. Len(m_audioPortsOut)}
      \cup DOMAIN m_controlPortsIn
      \cup DOMAIN m_controlPortsOut
      \cup {m_atomInputPorts[k].index : k \in 1 .. Len(m_atomInputPorts)}
      \cup {m_atomOutputPorts[k].index : k \in 1 .. Len(m_atomOutputPorts)} )
    \ {0 - 1}

\* C2: between operations a constructed instance either has no handle
\* (isOK() false) or has a handle that is activated and has every
\* classified port connected; no handle is left unconnected or inactive.
C2_RunnableOrNotOK ==
    life = "alive" =>
        \/ m_instance = NULL
        \/ /\ m_instance \in 1 .. Len(handles)
           /\ handles[m_instance].state = "active"
           /\ handles[m_instance].connected = ClassifiedPorts

\* C2 witness: a re-instantiation by setIdealChannelCount has returned with
\* a second handle, connected and activated
C2_Witness ==
    /\ life = "alive"
    /\ lastOp.name = "setIdealChannelCount"
    /\ m_instance = 2
    /\ handles[1].state = "freed"
    /\ handles[2].state = "active"
    /\ handles[2].connected = ClassifiedPorts
    /\ ClassifiedPorts # {}

\* C3: the plugin's run entry point is never called with a null handle,
\* by run() or by the block getLatency() runs.
C3_RunNeverOnNullHandle ==
    \A k \in 1 .. Len(calls) :
        calls[k].call = "run" => calls[k].handle # NULL

\* the event-input ports flagged MIDI-carrying
MidiInPorts ==
    {m_atomInputPorts[k].index :
        k \in {j \in 1 .. Len(m_atomInputPorts) : m_atomInputPorts[j].isMidi}}

\* the frame offsets the last run appended to port p, in append order
AppendedFrames(p) ==
    LET sel == SelectSeq(lastRun.appended, LAMBDA a : a.port = p)
    IN  [k \in 1 .. Len(sel) |-> sel[k].frames]

\* the last run appended envelope id to port p at frame offset f
AppendedAt(id, p, f) ==
    \E k \in 1 .. Len(lastRun.appended) :
        lastRun.appended[k] = [port |-> p, frames |-> f, id |-> id]

\* envelope id is pending
Pending(id) ==
    \E t \in DOMAIN m_eventBuffer : m_eventBuffer[t].id = id

\* C4: within one run the frame offsets appended to a MIDI event-input port
\* are non-decreasing in append order, and no envelope is appended to the
\* same port by two runs (or twice by one).
C4_OrderedAtMostOnce ==
    lastRun.valid =>
        /\ \A p \in MidiInPorts :
             \A i, j \in 1 .. Len(AppendedFrames(p)) :
                i < j => AppendedFrames(p)[i] <= AppendedFrames(p)[j]
        /\ \A k \in 1 .. Len(lastRun.appended) :
             << lastRun.appended[k].id, lastRun.appended[k].port >>
                 \notin lastRun.earlier
        /\ \A i, j \in 1 .. Len(lastRun.appended) :
             (i # j /\ lastRun.appended[i].port = lastRun.appended[j].port)
                 => lastRun.appended[i].id # lastRun.appended[j].id

\* C4 witness: one run appended two envelopes to a port, the second at a
\* later frame, after an earlier run had appended nothing
C4_Witness ==
    /\ lastRun.valid
    /\ \E p \in MidiInPorts :
          /\ Len(AppendedFrames(p)) = 2
          /\ AppendedFrames(p)[1] < AppendedFrames(p)[2]
    /\ Len(lastRun.removed) = 2

\* C5: a well-formed envelope that is late at entry to run (time <
\* blockStartTime) is no longer pending when run returns and was appended at
\* frame offset 0 to every MIDI event-input port.
C5_LateDeliveredAtZero ==
    lastRun.valid =>
        \A t \in DOMAIN lastRun.before :
            (t < lastRun.rt /\ snd_midi_event_decode(lastRun.before[t]) > 0) =>
                /\ ~ Pending(lastRun.before[t].id)
                /\ \A p \in MidiInPorts :
                      AppendedAt(lastRun.before[t].id, p, 0)

\* the frame offset of the specification: round((time - start) * rate),
\* with late envelopes clamped to the start of the block
SpecFrameOffset(t, start) ==
    realTime2Frame(IF t < start THEN 0 ELSE t - start, SampleRate)

\* C6: the walk stops at the first envelope whose frame offset is >= the
\* block length: such an envelope stays pending, unchanged, and every frame
\* offset the run appends is < the block length.
C6_StopsAtBlockLength ==
    lastRun.valid =>
        /\ \A k \in 1 .. Len(lastRun.appended) :
              lastRun.appended[k].frames < BlockSize
        /\ \A t \in DOMAIN lastRun.before :
              SpecFrameOffset(t, lastRun.rt) >= BlockSize =>
                  /\ t \in DOMAIN m_eventBuffer
                  /\ m_eventBuffer[t] = lastRun.before[t]

\* an envelope pending at entry to the last run that is due in the block
\* and does not decode
DueUndecodable(t) ==
    /\ t \in DOMAIN lastRun.before
    /\ SpecFrameOffset(t, lastRun.rt) < BlockSize
    /\ snd_midi_event_decode(lastRun.before[t]) <= 0

\* C7: a due envelope that fails to decode does not abort the block: the
\* envelope is dropped, the other due envelopes leave the queue, the process
\* callback is invoked, the event-input buffers are cleared and the channel
\* fan-out is done.
C7_DecodeFailureKeepsBlock ==
    (lastRun.valid /\ lastRun.handle # NULL
        /\ \E t \in DOMAIN lastRun.before : DueUndecodable(t)) =>
        /\ lastRun.processed
        /\ lastRun.cleared
        /\ lastRun.fanout = m_distributeChannels
        /\ \A t \in DOMAIN lastRun.before :
              SpecFrameOffset(t, lastRun.rt) < BlockSize =>
                  ~ Pending(lastRun.before[t].id)

\* C8: sendEvent adds one pending event and keeps every event that was
\* pending, also when an event with the same time is pending.
C8_SendEventEnqueues ==
    [][ nextId' # nextId =>
          /\ Cardinality(DOMAIN m_eventBuffer') =
                Cardinality(DOMAIN m_eventBuffer) + 1
          /\ \A t \in DOMAIN m_eventBuffer :
                \E u \in DOMAIN m_eventBuffer' :
                    m_eventBuffer'[u] = m_eventBuffer[t] ]_vars

\* the bytes one MIDI event takes in a sequence
PaddedMidiEvent == lv2_atom_pad_size(AtomEventSize + 3)

\* C9: every event-input sequence is empty at the start of every run, the
\* first one included, and every envelope a run removes from the queue is
\* appended in that run to every MIDI event-input port when the removed
\* envelopes fit an empty sequence.
C9_RemovedIsAppended ==
    lastRun.valid =>
        /\ \A k \in 1 .. Len(lastRun.startSizes) :
              lastRun.startSizes[k] = SeqBodySize
        /\ Len(lastRun.removed) * PaddedMidiEvent
                <= 8 * ABUFSIZED - 8 - SeqBodySize =>
              \A i \in 1 .. Len(lastRun.removed) :
                  \A p \in MidiInPorts :
                      \E f \in 0 .. BlockSize :
                          AppendedAt(lastRun.removed[i], p, f)

\* a declared control-input port of the plugin
IsControlIn(p) ==
    /\ p \in 0 .. Len(m_pluginData.ports) - 1
    /\ m_pluginData.ports[p + 1].portType = "LV2CONTROL"
    /\ m_pluginData.ports[p + 1].portProtocol = "LV2FLOAT"
    /\ m_pluginData.ports[p + 1].isInput

\* v clamped to [lo, hi]
Clamped(v, lo, hi) == IF v < lo THEN lo ELSE IF v > hi THEN hi ELSE v

\* C10: after setPortValue(p, v) on a control-input port with range
\* [min, max], getPortValue(p) is min if v < min, max if v > max, else v,
\* and getPortValue of every other port is what it was.
C10_SetThenGetClamps ==
    (/\ lastOp.name = "setPortValue"
     /\ IsControlIn(lastOp.port)
     /\ m_pluginData.ports[lastOp.port + 1].min
            <= m_pluginData.ports[lastOp.port + 1].max) =>
        LET pd == m_pluginData.ports[lastOp.port + 1]
        IN  /\ getPortValue(lastOp.port) = Clamped(lastOp.value, pd.min, pd.max)
            /\ \A q \in DOMAIN lastOp.before \ {lastOp.port} :
                  getPortValue(q) = lastOp.before[q]
            /\ DOMAIN m_controlPortsIn = DOMAIN lastOp.before

\* C10 witness: a value above the range was set on a control-input port and
\* the maximum is read back
C10_Witness ==
    /\ lastOp.name = "setPortValue"
    /\ IsControlIn(lastOp.port)
    /\ lastOp.value > m_pluginData.ports[lastOp.port + 1].max
    /\ getPortValue(lastOp.port) = m_pluginData.ports[lastOp.port + 1].max
    /\ lastOp.before[lastOp.port] # getPortValue(lastOp.port)

\* a run() on a live handle of an instance that has the worker interface
\* has returned
RunReturnedWithWorker ==
    /\ lastOp.name = "run"
    /\ lastRun.valid
    /\ lastRun.returned
    /\ lastRun.handle # NULL
    /\ m_workerInterface

\* C11: a worker job scheduled in block K is answered (work_response)
\* once, in the run of a later block and never in the run of block K; when
\* the worker thread has finished it before block K+1, that block answers
\* it: a run that returns leaves no completed response waiting.
C11_AnsweredInNextBlock == RunReturnedWithWorker => responses = 0

\* in no interleaving of the worker thread with a run does the run answer
\* a job that its own process callback scheduled
NeverAnsweredInOwnBlock ==
    lastOp.name = "runExit" => lastRun.ownAnswered = 0

\* a run answered a job that an earlier block scheduled
AnsweredInLaterBlock ==
    /\ lastOp.name = "runExit"
    /\ lastRun.drained > 0
    /\ lastRun.scheduled = 0

\* the calls of the last operation that enter the plugin's worker interface
WorkerCalls ==
    {k \in 1 .. Len(calls) : calls[k].call \in {"work", "work_response"}}

RunCalls ==
    {k \in 1 .. Len(calls) :
        calls[k].call \in {"run", "work_response", "end_run"}}

AdaptedRun ==
    /\ lastOp.name = "run"
    /\ lastRun.valid
    /\ lastRun.audio.ran
    /\ lastRun.returned
    /\ m_distributeChannels

\* C14: for an instance flagged for channel adaptation, the input buffer
\* the plugin is connected to holds (L[i] + R[i]) / 2 for every i below the
\* block length when the process callback is called, L and R being the two
\* host input buffers at entry to run; after run both host output buffers
\* hold the samples the plugin wrote to its one output.
C14_DownmixAndFanOut ==
    AdaptedRun =>
        LET a == lastRun.audio
        IN  /\ Len(a.entry) = 2
            /\ Len(a.pluginIn) = 1
            /\ Len(a.pluginOut) = 1
            /\ \A i \in 1 .. BlockSize :
                  2 * a.pluginIn[1][i] = a.entry[1][i] + a.entry[2][i]
            /\ Len(m_outputBuffers) = 2
            /\ \A i \in 1 .. BlockSize :
                  /\ m_outputBuffers[1][i] = a.pluginOut[1][i]
                  /\ m_outputBuffers[2][i] = a.pluginOut[1][i]

\* C14 witness: L starts 1, 3 and R starts 3, 5; the plugin was given 2, 4
\* and both outputs hold the block the plugin wrote
C14_Witness ==
    /\ AdaptedRun
    /\ lastRun.audio.entry = << Ramp(1), Ramp(3) >>
    /\ lastRun.audio.pluginIn[1][1] = 2
    /\ lastRun.audio.pluginIn[1][2] = 4
    /\ lastRun.audio.pluginOut = << Ramp(3) >>
    /\ m_outputBuffers = << Ramp(3), Ramp(3) >>

\* the plugin declares exactly one audio input and one audio output port
OneInOneOut ==
    LET audio(in) == {k \in 1 .. Len(m_pluginData.ports) :
                         /\ m_pluginData.ports[k].portType = "LV2AUDIO"
                         /\ m_pluginData.ports[k].isInput = in}
    IN  Cardinality(audio(TRUE)) = 1 /\ Cardinality(audio(FALSE)) = 1

\* the ideal channel count the host gave last, when the last operation is
\* one that takes it: the constructor or setIdealChannelCount
HostChannelCount ==
    IF lastOp.name = "setIdealChannelCount" THEN lastOp.channels
    ELSE m_channelCount

\* C15: after the constructor and after every setIdealChannelCount the
\* channel adaptation flag is set exactly when the plugin declares one
\* audio input and one audio output and the host's current ideal channel
\* count is 2; a run with the flag clear neither downmixes nor fans out.
C15_FlagMatchesChannels ==
    /\ (life = "alive" /\ lastOp.name \in {"constructor",
                                          "setIdealChannelCount"}) =>
           (m_distributeChannels <=> (OneInOneOut /\ HostChannelCount = 2))
    /\ (lastOp.name = "run" /\ lastRun.valid /\ ~ m_distributeChannels) =>
           (~ lastRun.downmix /\ ~ lastRun.fanout)

\* the calls of the last operation other than connect_port, by name
CallSteps ==
    LET names == [k \in 1 .. Len(calls) |-> calls[k].call]
    IN  SelectSeq(names, LAMBDA n : n # "connect_port")

\* every connect_port of the last operation lies between its instantiate
\* and its activate
ConnectsInPlace ==
    \A k \in 1 .. Len(calls) :
        calls[k].call = "connect_port" =>
            /\ \E i \in 1 .. k - 1 : calls[i].call = "instantiate"
            /\ \E j \in k + 1 .. Len(calls) : calls[j].call = "activate"

\* the port lists and sample buffers have the shape init() and the
\* constructor give them for an ideal channel count c
ShapedFor(c) ==
    LET st == init(m_pluginData, c)
    IN  /\ m_audioPortsIn = st.audioIn
        /\ m_audioPortsOut = st.audioOut
        /\ Len(m_inputBuffers) = Len(st.audioIn)
        /\ Len(m_outputBuffers) = Len(st.audioOut)

\* setIdealChannelCount(c) has returned, c differing from the current count
ChannelCountChanged ==
    /\ life = "alive"
    /\ lastOp.name = "setIdealChannelCount"
    /\ lastOp.channels # m_channelCount

\* the handle calls of a channel-count change come in the order of the claim
ChangeInOrder ==
    /\ CallSteps \in
         { << "deactivate", "cleanup", "instantiate", "activate" >>,
           << "deactivate", "cleanup", "instantiate" >>,
           << "instantiate", "activate" >>,
           << "instantiate" >> }
    /\ ConnectsInPlace
    /\ (CallSteps[Len(CallSteps)] = "activate") <=> (m_instance # NULL)

\* C16: setIdealChannelCount(c) with c different from the current count
\* deactivates the old handle (if the instance is OK), releases it and the
\* old audio buffers, instantiates, connects every port to buffers shaped
\* for the new count and activates (if instantiation succeeded), in this
\* order.
C16_ReshapedOnChannelChange ==
    ChannelCountChanged => (ChangeInOrder /\ ShapedFor(lastOp.channels))

\* the list the claim describes: each host feature once, then the terminator
HostFeatureList ==
    << "urid:map", "urid:unmap", "worker:schedule", "options:options",
       "nullptr" >>

\* C17: the feature list is assembled once and handed to instantiate once
\* in the life of the instance; it is null-terminated, holds each host
\* feature (map, unmap, worker schedule, options) exactly once and is never
\* modified after it was handed to the plugin.
C17_FeaturesHandedOnce ==
    life \in {"alive", "destroyed"} => m_features = HostFeatureList

\* C18: run takes the engine-wide lock once at entry and releases it once
\* on every path out, the normal end and the early return on a decode
\* failure: after run has returned the lock is not held, and it was not
\* released twice.
C18_LockReleasedOnReturn ==
    (lastOp.name = "run" /\ lastRun.valid /\ lastRun.returned) =>
        /\ lastRun.lockOps = << "lock", "unlock" >>
        /\ ~ locked

\* C18 witness: a run left by the early return on a decode failure
C18_Witness ==
    /\ lastOp.name = "run"
    /\ lastRun.valid
    /\ lastRun.aborted
    /\ lastRun.returned
    /\ lastRun.lockOps = << "lock", "unlock" >>
    /\ ~ locked

\* the places of step x among the steps of the last run
Places(x) == {k \in 1 .. Len(lastRun.steps) : lastRun.steps[k] = x}

\* every x comes before every y
Before(x, y) == \A i \in Places(x), j \in Places(y) : i < j

\* C19: within one run the downmix and the drain of due events come before
\* the process callback, which is called exactly once; the worker responses
\* come after it and before the end-of-block hook, which is called at most
\* once; the fan-out and the clearing of the event inputs come after the
\* process callback and before the lock is released.
C19_StepsInOrder ==
    (lastOp.name = "run" /\ lastRun.valid /\ lastRun.handle # NULL) =>
        /\ Cardinality(Places("process")) = 1
        /\ Places("drain") # {}
        /\ Before("drain", "process")
        /\ Before("downmix", "process")
        /\ Before("process", "work_response")
        /\ Before("work_response", "end_run")
        /\ Before("process", "end_run")
        /\ Cardinality(Places("end_run")) <= 1
        /\ Places("clear_atom_in") # {}
        /\ Before("process", "clear_atom_in")
        /\ Before("process", "fanout")
        /\ Before("clear_atom_in", "unlock")
        /\ Before("fanout", "unlock")
        /\ m_distributeChannels =>
               (Places("downmix") # {} /\ Places("fanout") # {})

\* C20: after discardEvents() the queue is empty and no envelope that was
\* sent before it is delivered by a later run: the plugin is given no event
\* by a run that follows discardEvents with no sendEvent in between.
C20_DiscardedNeverDelivered ==
    [][/\ lastOp'.name = "discardEvents" => m_eventBuffer' = << >>
       /\ (lastOp.name = "discardEvents" /\ lastOp'.name = "run") =>
              \A k \in 1 .. Len(lastRun'.seen) : lastRun'.seen[k] = << >>]_vars

\* the step is setPortByteArray(port, protocol, ba)
ByteArrayStep(port, protocol, ba) ==
    /\ lastOp'.name = "setPortByteArray"
    /\ m_atomInputPorts' =
           setPortByteArray(m_atomInputPorts, 1, port, protocol, ba)

\* the step is setPortByteArray(port, protocol, ba) reaching the atom input
\* port at position k
ByteArrayReaches(k, port, protocol, ba) ==
    /\ protocol = AtomTransfer
    /\ m_atomInputPorts[k].index = port
    /\ ByteArrayStep(port, protocol, ba)

\* the number of events the run just made appended to the port at position k
AppendedTo(lr, k) ==
    Cardinality({j \in 1 .. Len(lr.appended) :
                    lr.appended[j].port = m_atomInputPorts[k].index})

\* C21: when an event-input sequence has no room for an event the append is
\* refused and only that event is lost for that port.  For run(): the used
\* size of every sequence grows by the accepted events alone, every due
\* envelope that decodes leaves the queue, the process callback is invoked
\* and the instance stays OK.  For setPortByteArray(): the sequences, the
\* queue and the handle are unchanged.
C21_OverflowDropsOnlyTheEvent ==
    [][/\ (lastOp'.name = "run" /\ lastRun'.valid /\ m_instance # NULL
             /\ lastRun'.refused # << >>) =>
              /\ \A k \in 1 .. Len(m_atomInputPorts) :
                    lastRun'.usedSizes[k] =
                        m_atomInputPorts[k].size
                            + AppendedTo(lastRun', k) * PaddedMidiEvent
              /\ \A t \in DOMAIN m_eventBuffer :
                    (/\ SpecFrameOffset(t, lastRun'.rt) < BlockSize
                     /\ snd_midi_event_decode(m_eventBuffer[t]) > 0) =>
                        \A u \in DOMAIN m_eventBuffer' :
                            m_eventBuffer'[u].id # m_eventBuffer[t].id
              /\ lastRun'.processed
              /\ m_instance' = m_instance /\ life' = "alive"
       /\ \A k \in 1 .. Len(m_atomInputPorts), ba \in ByteArrays :
              (/\ AppendRefused(m_atomInputPorts[k], 8 * ABUFSIZED,
                                BlobAtomEvent(ba))
               /\ ByteArrayReaches(k, m_atomInputPorts[k].index,
                                   AtomTransfer, ba)) =>
                  /\ m_atomInputPorts' = m_atomInputPorts
                  /\ m_eventBuffer' = m_eventBuffer
                  /\ m_instance' = m_instance /\ life' = "alive" ]_vars

\* the declared ports whose category and protocol conflict: typed as MIDI
\* (event) without the atom protocol
ConflictingPorts ==
    {i \in 0 .. Len(m_pluginData.ports) - 1 :
        /\ m_pluginData.ports[i + 1].portType = "LV2MIDI"
        /\ m_pluginData.ports[i + 1].portProtocol # "LV2ATOM"}

\* C22: a port whose category and protocol conflict is inert: it is in none
\* of the audio, control and event lists and is passed to connect_port on no
\* handle, and the plugin is instantiated and activated all the same.
C22_ConflictingPortInert ==
    life = "alive" =>
        /\ ConflictingPorts \cap ClassifiedPorts = {}
        /\ \A h \in 1 .. Len(handles) :
              ConflictingPorts \cap handles[h].connected = {}
        /\ m_instance # NULL => handles[m_instance].state = "active"

\* the input buffers the block just run was given hold only zeros
SilentBlock(lr) ==
    \A k \in 1 .. Len(lr.audio.entry) : lr.audio.entry[k] = ZeroBuffer

\* C23: getLatency() runs exactly one block of silence before it returns the
\* value of the latency port when there is such a port and the plugin was
\* never run; it runs no block when the plugin was run before, and returns 0
\* and runs no block when there is no latency port.  The plugin counts as
\* run from the first block whose process callback was invoked, for good, so
\* getLatency triggers at most one silent block.
C23_LatencyRunsOneSilentBlock ==
    [][/\ m_run' # m_run =>
              (m_run' /\ lastRun'.valid /\ lastRun'.processed)
       /\ (lastRun'.valid /\ lastRun'.processed /\ life' = "alive") => m_run'
       /\ (lastOp'.name = "getLatency" /\ m_latencyPort # {} /\ ~ m_run
             /\ life' = "alive") =>
              /\ lastRun'.valid /\ lastRun'.processed
              /\ SilentBlock(lastRun')
              /\ Len(calls') >= 1 /\ calls'[1].call = "run"
              /\ \A k \in 2 .. Len(calls') : calls'[k].call # "run"
              /\ lastOp'.result \in
                    {m_controlPortsOut'[i] : i \in m_latencyPort}
       /\ (lastOp'.name = "getLatency" /\ m_latencyPort # {} /\ m_run) =>
              /\ ~ lastRun'.valid /\ calls' = << >>
              /\ lastOp'.result \in
                    {m_controlPortsOut'[i] : i \in m_latencyPort}
       /\ (lastOp'.name = "getLatency" /\ m_latencyPort = {}) =>
              /\ ~ lastRun'.valid /\ calls' = << >>
              /\ lastOp'.result = 0 ]_vars

\* the positions of the atom input ports with port index port
EventInputAt(port) ==
    {k \in 1 .. Len(m_atomInputPorts) : m_atomInputPorts[k].index = port}

\* the step appends exactly one entry, stamped frame 0 and carrying ba, to the
\* sequence at position k and leaves the other sequences alone
OneEntryAppended(k, ba) ==
    /\ Len(m_atomInputPorts') = Len(m_atomInputPorts)
    /\ Len(m_atomInputPorts'[k].events) = Len(m_atomInputPorts[k].events) + 1
    /\ \A j \in 1 .. Len(m_atomInputPorts[k].events) :
          m_atomInputPorts'[k].events[j] = m_atomInputPorts[k].events[j]
    /\ LET last == m_atomInputPorts'[k].events[Len(m_atomInputPorts'[k].events)]
       IN  last.frames = 0 /\ last.size = ba.size /\ last.type = ba.type
    /\ \A j \in 1 .. Len(m_atomInputPorts) :
          j # k => m_atomInputPorts'[j] = m_atomInputPorts[j]

\* C24: setPortByteArray(port, protocol, bytes) appends exactly one entry
\* stamped frame 0 to the event-input sequence of the port with that index
\* when the protocol is the event-transfer protocol and the port is an
\* event-input port; in every other case no sequence changes.  No control
\* value and no pending event changes in either case.
C24_ByteArrayAppendsOneEntry ==
    [][lastOp'.name = "setPortByteArray" =>
          /\ m_controlPortsIn' = m_controlPortsIn
          /\ m_controlPortsOut' = m_controlPortsOut
          /\ m_eventBuffer' = m_eventBuffer
          /\ m_atomOutputPorts' = m_atomOutputPorts
          /\ \A port \in 0 .. Len(m_pluginData.ports) - 1,
                protocol \in Protocols, ba \in ByteArrays :
                ByteArrayStep(port, protocol, ba) =>
                    IF protocol = AtomTransfer /\ EventInputAt(port) # {}
                    THEN \E k \in EventInputAt(port) : OneEntryAppended(k, ba)
                    ELSE m_atomInputPorts' = m_atomInputPorts ]_vars

\* C25: in every state after construction the scalar bound to each
\* control-input port lies within the [min, max] range the port declares,
\* whatever setPortValue calls were made and also before any was made.
C25_ControlValuesInRange ==
    life = "alive" =>
        \A p \in DOMAIN m_controlPortsIn :
            /\ m_pluginData.ports[p + 1].min <= m_controlPortsIn[p]
            /\ m_controlPortsIn[p] <= m_pluginData.ports[p + 1].max

\* the envelope at time t was met by the last run and failed to decode: it
\* was due and every envelope before it in the queue decoded
MetUndecodable(t) ==
    /\ DueUndecodable(t)
    /\ \A u \in DOMAIN lastRun.before :
          u < t => snd_midi_event_decode(lastRun.before[u]) > 0

\* C26: an envelope that fails to decode is removed from the pending set by
\* the run that meets it, so that no later run meets it again, and the
\* process callback is invoked in that block as in the blocks that follow.
C26_MalformedMetOnce ==
    lastRun.valid =>
        \A t \in DOMAIN lastRun.before :
            MetUndecodable(t) =>
                /\ ~ Pending(lastRun.before[t].id)
                /\ lastRun.processed

\* the number of entries p has in the sequence of port indices list
CountIn(list, p) == Cardinality({k \in 1 .. Len(list) : list[k] = p})

\* the number of entries port index p has in the six lists together
Occurrences(p) ==
    CountIn(m_audioPortsIn, p) + CountIn(m_audioPortsOut, p)
    + CountIn(AtomIndices(m_atomInputPorts), p)
    + CountIn(AtomIndices(m_atomOutputPorts), p)
    + (IF p \in DOMAIN m_controlPortsIn THEN 1 ELSE 0)
    + (IF p \in DOMAIN m_controlPortsOut THEN 1 ELSE 0)

\* the list the classifier is to put port p in, by type, direction and
\* protocol, holds it
ClassifiedByRule(p) ==
    LET pd == m_pluginData.ports[p + 1]
        atoms == IF pd.isInput THEN m_atomInputPorts ELSE m_atomOutputPorts
    IN  /\ pd.portType = "LV2AUDIO" =>
              CountIn(IF pd.isInput THEN m_audioPortsIn
                      ELSE m_audioPortsOut, p) = 1
        /\ (pd.portType \in {"LV2CONTROL", "LV2MIDI"}
              /\ pd.portProtocol = "LV2ATOM") =>
              \E k \in 1 .. Len(atoms) :
                  /\ atoms[k].index = p
                  /\ atoms[k].isMidi <=> (pd.portType = "LV2MIDI")
        /\ (pd.portType = "LV2CONTROL" /\ pd.portProtocol # "LV2ATOM") =>
              p \in DOMAIN (IF pd.isInput THEN m_controlPortsIn
                            ELSE m_controlPortsOut)

\* every declared port is classified by the rule and is in one list only
EveryPortClassified ==
    \A p \in 0 .. Len(m_pluginData.ports) - 1 :
        ClassifiedByRule(p) /\ Occurrences(p) <= 1

\* the entries of list are in increasing order
Increasing(list) ==
    \A i, j \in 1 .. Len(list) : i < j => list[i] < list[j]

\* the entries of list that are port indices
PortIndicesOf(list) == SelectSeq(list, LAMBDA p : p # 0 - 1)

\* list holds the placeholder -1 only as its last entry, and only when the
\* instance is marked for channel adaptation
PlaceholderLast(list) ==
    \A k \in 1 .. Len(list) :
        list[k] = 0 - 1 => (k = Len(list) /\ m_distributeChannels)

\* C27 as stated: every declared port is classified by its type, direction
\* and protocol into one list only, and the audio index lists are in
\* increasing order.
C27_ClassifierIncreasingLists ==
    life = "alive" =>
        /\ EveryPortClassified
        /\ Increasing(m_audioPortsIn)
        /\ Increasing(m_audioPortsOut)

\* C27 amended: every declared port is classified by its type, direction and
\* protocol into one list only, and the port indices of the audio lists are
\* in increasing order; when the instance is marked for channel adaptation
\* each audio list ends with the placeholder -1, which is no port index.
C27_ClassifierWithPlaceholder ==
    life = "alive" =>
        /\ EveryPortClassified
        /\ Increasing(PortIndicesOf(m_audioPortsIn))
        /\ Increasing(PortIndicesOf(m_audioPortsOut))
        /\ PlaceholderLast(m_audioPortsIn)
        /\ PlaceholderLast(m_audioPortsOut)
        /\ m_distributeChannels =>
              (CountIn(m_audioPortsIn, 0 - 1) = 1
                 /\ CountIn(m_audioPortsOut, 0 - 1) = 1)

\* C27 witness: the classifier has put an audio output before an audio input
\* of a plugin on two channels and ended both lists with the placeholder
C27_Witness ==
    /\ life = "alive"
    /\ m_distributeChannels
    /\ m_audioPortsIn = << 1, 0 - 1 >>
    /\ m_audioPortsOut = << 0, 0 - 1 >>

\* the bytes of its buffer a sequence of recorded size uses: the atom header
\* and the body the size counts
BytesInUse(size) == AtomHeaderSize + size

\* the bytes init() allocates for a sequence: ABUFSIZED doubles
BytesAllocated == 8 * ABUFSIZED

\* C28: whatever run() and setPortByteArray() append, the bytes in use of an
\* event sequence buffer never exceed the bytes allocated for it, between
\* operations and when the process callback of a run reads the sequence.
C28_AppendsStayInBuffer ==
    /\ \A k \in 1 .. Len(m_atomInputPorts) :
          BytesInUse(m_atomInputPorts[k].size) <= BytesAllocated
    /\ lastRun.valid =>
          \A k \in 1 .. Len(lastRun.usedSizes) :
              BytesInUse(lastRun.usedSizes[k]) <= BytesAllocated

\* C29: setIdealChannelCount(c) is idempotent: a call that repeats the count
\* of the call just before it issues no deactivate, cleanup, instantiate,
\* connect_port or activate call and keeps the handle, and so does a call
\* with the count the instance already has.
C29_ChannelCountIdempotent ==
    [][lastOp'.name = "setIdealChannelCount" =>
          /\ (lastOp.name = "setIdealChannelCount"
                /\ lastOp.channels = lastOp'.channels) =>
                 (calls' = << >> /\ m_instance' = m_instance)
          /\ lastOp'.channels = m_channelCount =>
                 (calls' = << >> /\ m_instance' = m_instance) ]_vars

\* the ports declared by the plugin
DeclaredPorts == 0 .. Len(m_pluginData.ports) - 1

\* whether ABI call c may be made on a handle in state h, by the protocol
\* instantiate, connect_port for every port, activate, any number of run or
\* (deactivate, activate), deactivate, cleanup
CallAllowed(c, h) ==
    CASE c.call = "connect_port" -> h.state = "instantiated"
      [] c.call = "activate" ->
            /\ h.state \in {"instantiated", "inactive"}
            /\ h.connected = DeclaredPorts
      [] c.call = "run" -> h.state = "active"
      [] c.call = "deactivate" -> h.state = "active"
      [] c.call = "cleanup" -> h.state = "inactive"
      [] OTHER -> h.state # "freed"

\* the state of a handle after ABI call c
AfterCall(c, h) ==
    CASE c.call = "connect_port" ->
            [h EXCEPT !.connected = @ \cup {c.port}]
      [] c.call = "activate" -> [h EXCEPT !.state = "active"]
      [] c.call = "deactivate" -> [h EXCEPT !.state = "inactive"]
      [] c.call = "cleanup" -> [h EXCEPT !.state = "freed"]
      [] OTHER -> h

\* the handles after the calls cs made in order from the handles hs, or the
\* empty set when a call breaks the protocol; calls through nullptr are on
\* no handle
RECURSIVE FollowProtocol(_, _)
FollowProtocol(hs, cs) ==
    IF cs = << >> THEN {hs}
    ELSE LET c == Head(cs)
         IN  IF c.handle = NULL THEN FollowProtocol(hs, Tail(cs))
             ELSE IF c.call = "instantiate"
             THEN IF c.handle # Len(hs) + 1 THEN {}
                  ELSE FollowProtocol(
                           Append(hs, [state |-> "instantiated",
                                       connected |-> {}]), Tail(cs))
             ELSE IF c.handle \notin 1 .. Len(hs) THEN {}
             ELSE IF ~ CallAllowed(c, hs[c.handle]) THEN {}
             ELSE FollowProtocol(
                      [hs EXCEPT ![c.handle] = AfterCall(c, @)], Tail(cs))

\* C30: the ABI calls every operation issues on each plugin handle follow
\* the protocol from the state the earlier operations left the handle in:
\* connect_port only before the first activate, activate only on a handle
\* that is not active and has every port connected, run and deactivate only
\* on an active handle, cleanup only after deactivate, and no call after
\* cleanup; a handle the instance no longer holds has been cleaned up, and
\* so has every handle once the destructor has returned.
C30_HandleProtocol ==
    [][life' \in {"alive", "destroyed"} =>
          /\ FollowProtocol(handles, calls') = {handles'}
          /\ \A h \in 1 .. Len(handles') :
                (h # m_instance' \/ life' = "destroyed") =>
                    handles'[h].state = "freed" ]_vars

\* C30 witness: the destructor has returned after a channel count change and
\* a run: both handles went through the protocol to cleanup
C30_Witness ==
    /\ life = "destroyed"
    /\ lastOp.name = "destructor"
    /\ m_run
    /\ Len(handles) = 2
    /\ \A h \in 1 .. 2 : handles[h].state = "freed"
                         /\ handles[h].connected = DeclaredPorts
    /\ Len(calls) = 2
    /\ calls[1].call = "deactivate" /\ calls[2].call = "cleanup"

\* C31: setPortValue(p, v) with p not a control-input port (an audio, event
\* or control-output port, or an index the plugin does not declare) changes
\* nothing: no control value is created or modified and the set of
\* control-input ports is what it was; getPortValue(p) for such a p returns
\* 0.0 and does not add p to the control-input ports.
C31_OtherPortsUntouched ==
    (/\ lastOp.name \in {"setPortValue", "getPortValue"}
     /\ ~ IsControlIn(lastOp.port)) =>
        /\ m_controlPortsIn = lastOp.before
        /\ lastOp.port \notin DOMAIN m_controlPortsIn
        /\ lastOp.name = "getPortValue" => lastOp.result = 0

\* C31 witness: setPortValue with a nonzero value was called on an event
\* input port of a plugin that has control-input ports, and they are as
\* before
C31_Witness ==
    /\ lastOp.name = "setPortValue"
    /\ lastOp.port \in 0 .. Len(m_pluginData.ports) - 1
    /\ m_pluginData.ports[lastOp.port + 1].portProtocol = "LV2ATOM"
    /\ m_pluginData.ports[lastOp.port + 1].isInput
    /\ lastOp.value # 0
    /\ DOMAIN m_controlPortsIn # {}
    /\ m_controlPortsIn = lastOp.before

\* a call of sendEvent, discardEvents or setPortByteArray has just returned
CallerInside ==
    lastOp.name \in {"sendEvent", "discardEvents", "setPortByteArray"}

\* C32: sendEvent, discardEvents and setPortByteArray never modify the
\* pending event queue or an event-input sequence while run() on the same
\* instance is inside them: each access is made holding the lock run() holds,
\* so no interleaving has a caller thread inside these structures while the
\* audio thread holds the lock.
C32_NoAccessDuringRun ==
    CallerInside => ~ locked

\* the stream is closed or was never created, and no ring buffer is held
Released ==
    /\ m_ws = "null"
    /\ m_leftChannelBuffer.ptr = "null"
    /\ m_rightChannelBuffer.ptr = "null"

\* C33: isComplete() is stable: once it has returned true it returns true
\* on every later call, and it returns true only after the write stream has
\* been closed (or was never created) and the ring buffers released, also
\* when start(), stop() and update() are called in this order.
C33_CompleteIsStable ==
    [][/\ isComplete => isComplete'
       /\ isComplete' => Released']_vars

\* C34: addSamples on the audio thread never reads or writes a ring buffer
\* that update on the GUI thread has deleted: whenever the audio thread is
\* past the test of m_running and before its return, both buffers exist.
C34_NoDeletedBufferUse ==
    audioThread.pc \in {"running", "left"} =>
        /\ m_leftChannelBuffer.ptr = "live"
        /\ m_rightChannelBuffer.ptr = "live"

\* s is the beginning of t
IsPrefixOf(s, t) == Len(s) <= Len(t) /\ SubSeq(t, 1, Len(s)) = s

\* C35: every frame addSamples has accepted is put to the write stream once
\* and in order before the stream is closed: the stream holds a beginning
\* of the accepted frames, and all of them once update has deleted the
\* stream and the buffers on stop.
C35_AcceptedAllStreamed ==
    /\ IsPrefixOf(streamFrames, accepted)
    /\ exportLog.closed => streamFrames = accepted

\* C36: addSamples is all-or-nothing across the channels: outside a call
\* both ring buffers hold the same number of unread samples, and they are
\* the accepted frames not yet streamed; the i-th unread left sample and the
\* i-th unread right sample are of the same frame, and so are the two
\* samples of every frame put to the stream.
C36_ChannelsInStep ==
    /\ \A i \in 1 .. Len(streamFrames) :
          \E k \in 1 .. MaxFrames :
             streamFrames[i] = << LeftSample(k), RightSample(k) >>
    /\ (m_leftChannelBuffer.ptr = "live"
        /\ m_rightChannelBuffer.ptr = "live") =>
          /\ \A i \in 1 .. getReadSpace(m_rightChannelBuffer) :
                /\ i <= getReadSpace(m_leftChannelBuffer)
                /\ \E k \in 1 .. MaxFrames :
                      /\ m_leftChannelBuffer.data[i] = LeftSample(k)
                      /\ m_rightChannelBuffer.data[i] = RightSample(k)
          /\ audioThread.pc # "left" =>
                /\ getReadSpace(m_leftChannelBuffer)
                       = getReadSpace(m_rightChannelBuffer)
                /\ accepted = streamFrames \o
                       Interleave(m_leftChannelBuffer.data,
                                  m_rightChannelBuffer.data)

\* C36 witness: frames have been streamed, a later call has filled both
\* ring buffers and the last call has been refused for lack of space
C36_Witness ==
    /\ audioThread.pc = "idle"
    /\ audioThread.returned = "overflow"
    /\ Len(streamFrames) >= 1
    /\ getReadSpace(m_leftChannelBuffer) = RingSize
    /\ getReadSpace(m_rightChannelBuffer) = RingSize
    /\ exportLog.offered > Len(accepted)

\* the segments of the command that are in the composition
Attached ==
    {sg \in {m_segment, m_newSegment} \ {NULL} : segments[sg].composition}

\* C37: in every state in which the command can be destroyed exactly one of
\* the original and the resized segment is in the composition, and the
\* destructor deletes only a segment that is not; unexecute after execute
\* puts the original back, and a later execute uses the resized segment
\* made by the first.
C37_DeletesOnlyDetached ==
    /\ commandLife = "alive" =>
          /\ Cardinality(Attached) = 1
          /\ m_detached => (/\ Attached = {m_segment}
                            /\ segments[m_segment].startTime = m_oldStartTime)
          /\ Len(segments) <= 2
    /\ commandLife = "destroyed" =>
          \A sg \in 1 .. Len(segments) :
             segments[sg].state = "deleted" => ~ segments[sg].composition

====
